---------------------------- MODULE Spec2Model ----------------------------
(***************************************************************************)
(* Verification model of the interview-bot evaluation pipeline.           *)
(*                                                                         *)
(* The classes of the backend are modelled as records and their methods   *)
(* as operators that take the object and return the object after the      *)
(* call, so the same definitions serve the stand-alone specifications     *)
(* (one object driven by arbitrary calls) and the server specification    *)
(* (objects owned by a session and driven by POST /api/chat).             *)
(*                                                                         *)
(* JavaScript strings are TLA+ strings; the string methods the code uses  *)
(* (toLowerCase, includes, trim, split, RegExp.test) are defined on their *)
(* characters.  JavaScript numbers that are not integers are kept as      *)
(* exact fractions or as scaled integers; Math.round of an expression     *)
(* that the code evaluates in double precision is modelled with the       *)
(* result the double evaluation gives.                                    *)
(***************************************************************************)
EXTENDS Integers, Sequences, FiniteSets, TLC

VARIABLES
    clock,      \* Date.now(), in seconds
    mgr,        \* a stand-alone AdaptiveDifficultyManager
    evalArgs,   \* the arguments of a call of evaluateAnswer
    evalResult, \* its outcome, Null before the call
    monitor,    \* a stand-alone AntiCheatMonitor
    analysis,   \* what the last analyzeAnswer of monitor returned
    sessionData,         \* server.js: the Map sessionId -> session
    conversationHistory, \* server.js: the Map sessionId -> messages
    inFlight,   \* the /api/chat requests waiting at await generateResponse
    arrivals,   \* how many /api/chat requests the server has received
    sessionsFile,        \* storage.js: the content of sessions.json
    candidatesFile,      \* storage.js: the content of candidates.json
    sent,       \* the HTTP response the server sent last
    detector,   \* a stand-alone SkillGapDetector
    report,     \* what the last getAnalysis of detector returned
    gapArgs,    \* the argument of a call of _calculateOverallGapScore
    gapScore,   \* its outcome, Null before the call
    lastCall,   \* the last call of a method of mgr and what it returned
    pendingResumes,      \* server.js: the Map sessionId -> resume text
    client      \* index.tsx: the refs, timers and requests of HomeScreen

adaptiveVars  == <<mgr>>
evalVars      == <<evalArgs, evalResult>>
antiCheatVars == <<monitor, analysis>>
serverVars    == <<sessionData, conversationHistory, inFlight, arrivals,
                   sessionsFile, candidatesFile, sent, pendingResumes>>
moduleVars    == <<detector, report, gapArgs, gapScore, lastCall>>
clientVars    == <<client>>

vars == <<clock, mgr, evalArgs, evalResult, monitor, analysis,
          sessionData, conversationHistory, inFlight, arrivals,
          sessionsFile, candidatesFile, sent,
          detector, report, gapArgs, gapScore, lastCall, pendingResumes, client>>

\* Date.now(), in milliseconds
Now == 1000 * clock

----------------------------------------------------------------------------
(* Bounds of the model *)

\* most scores recorded by one stand-alone AdaptiveDifficultyManager
MaxAnswers == 4

\* most answers analyzed by one stand-alone AntiCheatMonitor
MaxAnalyzed == 4

\* the last second of the clock
MaxClock == 4

\* how far outside 0..10 the aiScore passed to evaluateAnswer may lie
OutOfRange == 2

----------------------------------------------------------------------------
(* Helpers for JavaScript arithmetic and arrays *)

Min(a, b) == IF a <= b THEN a ELSE b
Max(a, b) == IF a >= b THEN a ELSE b

\* Math.round(num / den) for den > 0, where num / den is exact:
\* the nearest integer, a tie going up
RoundDiv(num, den) == (2 * num + den) \div (2 * den)

RECURSIVE SumSeq(_)
\* arr.reduce((a, b) => a + b, 0)
SumSeq(s) == IF s = <<>> THEN 0 ELSE s[1] + SumSeq(Tail(s))

\* arr.slice(-k), k > 0
SliceLast(s, k) == SubSeq(s, Max(1, Len(s) - k + 1), Len(s))

\* the null of a field that otherwise holds a record
Null == [isNull |-> TRUE]

\* A Map, or an object used as one, is a function on the keys it has.
EmptyMap == [k \in {} |-> Null]

Has(map, key) == key \in DOMAIN map

\* mutant: one value for every key of the map
MapSet_Shared(map, key, value) ==
    [k \in DOMAIN map \cup {key} |-> value]

MapSet(map, key, value) ==
    [k \in DOMAIN map \cup {key} |-> IF k = key THEN value ELSE map[k]]

----------------------------------------------------------------------------
(* JavaScript strings.  A string is a TLA+ string; At(s, i) is the one-     *)
(* character string at position i.                                          *)

At(s, i) == SubSeq(s, i, i)

UpperCaseLetters == "ABCDEFGHIJKLMNOPQRSTUVWXYZ"
LowerCaseLetters == "abcdefghijklmnopqrstuvwxyz"
Digits == {"0", "1", "2", "3", "4", "5", "6", "7", "8", "9"}

\* \s of a regular expression
WhiteSpace == {" ", "\t", "\n", "\r", "\f"}

IsSpace(ch) == ch \in WhiteSpace

\* \w of a regular expression
IsWordChar(ch) ==
    \/ ch \in Digits
    \/ ch = "_"
    \/ \E i \in 1..26 : ch = At(LowerCaseLetters, i) \/ ch = At(UpperCaseLetters, i)

LowerChar(ch) ==
    IF \E i \in 1..26 : ch = At(UpperCaseLetters, i)
    THEN At(LowerCaseLetters, CHOOSE i \in 1..26 : ch = At(UpperCaseLetters, i))
    ELSE ch

RECURSIVE LowerRange(_, _, _)
LowerRange(s, i, j) ==
    IF i > j THEN ""
    ELSE IF i = j THEN LowerChar(At(s, i))
    ELSE LET mid == (i + j) \div 2
         IN  LowerRange(s, i, mid) \o LowerRange(s, mid + 1, j)

\* s.toLowerCase()
toLowerCase(s) == LowerRange(s, 1, Len(s))

\* s.includes(k)
includes(s, k) ==
    \E i \in 1..(Len(s) - Len(k) + 1) : SubSeq(s, i, i + Len(k) - 1) = k

\* s.trim()
trim(s) ==
    LET kept == {i \in 1..Len(s) : ~IsSpace(At(s, i))}
    IN  IF kept = {} THEN ""
        ELSE SubSeq(s, CHOOSE i \in kept : \A j \in kept : i <= j,
                       CHOOSE i \in kept : \A j \in kept : i >= j)

RECURSIVE PiecesFrom(_, _, _)
\* the pieces of s that start at the positions of starts, in order; a
\* piece ends before the next position of seps
PiecesFrom(s, starts, seps) ==
    IF starts = {} THEN <<>>
    ELSE LET i    == CHOOSE a \in starts : \A b \in starts : a <= b
             ends == {j \in seps : j >= i}
             e    == IF ends = {} THEN Len(s) + 1
                     ELSE CHOOSE a \in ends : \A b \in ends : a <= b
         IN  <<SubSeq(s, i, e - 1)>> \o PiecesFrom(s, starts \ {i}, seps)

\* s.split(re), re matching the maximal runs of the characters of separators
\* (/\s+/, /[.!?]+/): the pieces between the runs, an empty piece before a
\* run that starts s and after a run that ends it
SplitRuns(s, separators) ==
    LET n      == Len(s)
        seps   == {i \in 1..n : At(s, i) \in separators}
        starts == {i \in 1..n : i \notin seps /\ (i = 1 \/ (i - 1) \in seps)}
        lead   == IF n = 0 \/ 1 \in seps THEN <<"">> ELSE <<>>
        trail  == IF n > 0 /\ n \in seps THEN <<"">> ELSE <<>>
    IN  lead \o PiecesFrom(s, starts, seps) \o trail

\* w => w.length > 0
NonEmpty(w) == Len(w) > 0

\* /\d+/.test(s)
HasDigit(s) == \E i \in 1..Len(s) : At(s, i) \in Digits

\* new RegExp(`\\b${k}\\b`, 'gi').test(s) for s in lower case and k made of
\* word characters and spaces, beginning and ending with a word character
HasWholeWord(s, k) ==
    \E i \in 1..(Len(s) - Len(k) + 1) :
        /\ SubSeq(s, i, i + Len(k) - 1) = k
        /\ i = 1 \/ ~IsWordChar(At(s, i - 1))
        /\ i + Len(k) - 1 = Len(s) \/ ~IsWordChar(At(s, i + Len(k)))

\* the elements of an array, as a set
Range(arr) == {arr[i] : i \in 1..Len(arr)}

----------------------------------------------------------------------------
(* JavaScript values whose type the code does not control (a request     *)
(* body field): t is the result of typeof (or "array", "null"), v the      *)
(* value written as a string.                                              *)

Str(s) == [t |-> "string", v |-> s]

IsString(x) == x.t = "string"

\* !x
Falsy(x) ==
    \/ x.t \in {"undefined", "null"}
    \/ x.t = "string" /\ x.v = ""
    \/ x.t = "number" /\ x.v = "0"
    \/ x.t = "boolean" /\ x.v = "false"

\* the outcome of a call that throws
TypeError == [threw |-> TRUE, error |-> "TypeError"]

----------------------------------------------------------------------------
(* evaluation.js *)

TECHNICAL_KEYWORDS ==
    [ javascript |->
        << "closure", "prototype", "async", "await", "promise", "callback",
           "event loop", "hoisting", "scope", "this", "arrow function",
           "destructuring", "spread", "rest", "module", "import", "export",
           "class", "inheritance", "dom", "api", "fetch", "json", "typescript" >>,
      react |->
        << "component", "state", "props", "hook", "useEffect", "useState",
           "virtual dom", "jsx", "render", "lifecycle", "context", "redux",
           "memo", "ref", "key", "fragment", "portal", "suspense", "lazy" >>,
      python |->
        << "decorator", "generator", "list comprehension", "lambda", "class",
           "inheritance", "exception", "module", "package", "pip",
           "virtual environment", "dict", "tuple", "set", "async", "await",
           "type hint" >>,
      database |->
        << "sql", "nosql", "index", "query", "join", "normalization",
           "transaction", "acid", "schema", "migration", "orm", "primary key",
           "foreign key", "aggregate", "stored procedure" >>,
      system_design |->
        << "scalability", "load balancer", "caching", "microservice",
           "api gateway", "database sharding", "replication", "cdn",
           "message queue", "rate limiting", "circuit breaker", "consistency",
           "availability", "partition tolerance" >>,
      general |->
        << "algorithm", "data structure", "complexity", "testing", "debugging",
           "version control", "git", "ci/cd", "agile", "scrum", "code review",
           "documentation", "deployment", "monitoring", "security" >>,
      behavioral |->
        << "team", "leadership", "conflict", "challenge", "deadline",
           "communication", "feedback", "collaboration", "priority", "decision",
           "mistake", "learn", "improve", "initiative", "mentor" >> ]

HEDGING_PHRASES ==
    << "i think", "maybe", "probably", "i guess", "not sure", "i believe",
       "kind of", "sort of", "um", "uh", "like", "you know", "basically",
       "i don't know", "i'm not certain", "it might be", "perhaps",
       "i suppose", "something like", "more or less" >>

FILLER_WORDS ==
    << "um", "uh", "like", "you know", "basically", "actually", "literally",
       "honestly", "right", "so yeah" >>

STAR_KEYWORDS ==
    [ situation |-> << "situation", "context", "background", "working on",
                       "project", "task", "assigned" >>,
      task      |-> << "task", "responsible", "goal", "objective", "needed to",
                       "had to", "required" >>,
      action    |-> << "action", "implemented", "developed", "created", "built",
                       "designed", "led", "initiated", "proposed", "solved" >>,
      result    |-> << "result", "outcome", "achieved", "improved", "reduced",
                       "increased", "delivered", "successfully", "impact",
                       "metrics" >> ]

\* detectRelevantTopics: the topics in the order of the table
TopicOrder ==
    << "javascript", "react", "python", "database", "system_design", "behavioral" >>

topicIndicators ==
    [ javascript    |-> << "javascript", "js", "node", "typescript", "es6", "ecmascript" >>,
      react         |-> << "react", "component", "hook", "jsx", "redux", "next.js", "frontend" >>,
      python        |-> << "python", "django", "flask", "pip", "pandas", "numpy" >>,
      database      |-> << "database", "sql", "nosql", "mongo", "postgres", "mysql",
                           "query", "data model" >>,
      system_design |-> << "system design", "architecture", "scalab", "microservice",
                           "distributed", "design a" >>,
      behavioral    |-> << "tell me about", "describe a time", "how do you handle",
                           "experience", "challenge", "team", "conflict", "why do you",
                           "what are your", "strength", "weakness" >> ]

\* arr.some(k => s.includes(k))
IncludesSome(s, arr) == \E i \in 1..Len(arr) : includes(s, arr[i])

\* arr.filter(k => s.includes(k))
IncludedOf(s, arr) == SelectSeq(arr, LAMBDA k : includes(s, k))

detectRelevantTopics(question) ==
    LET topics == SelectSeq(TopicOrder,
                            LAMBDA topic : IncludesSome(question, topicIndicators[topic]))
    IN  IF Len(topics) = 0 THEN <<"general">> ELSE topics

RECURSIVE KeywordsOf(_)
\* the keywords of the topics of a list, as a set ([...new Set(...)])
KeywordsOf(topics) ==
    IF topics = <<>> THEN {}
    ELSE Range(TECHNICAL_KEYWORDS[topics[1]]) \cup KeywordsOf(Tail(topics))

\* evaluateKeywordCoverage(answer, question); answer.toLowerCase() throws
\* when answer is no string
evaluateKeywordCoverage(answer, question) ==
    IF ~IsString(answer) THEN TypeError
    ELSE
    LET lowerAnswer      == toLowerCase(answer.v)
        lowerQuestion    == toLowerCase(question)
        relevantTopics   == detectRelevantTopics(lowerQuestion)
        relevantKeywords == KeywordsOf(relevantTopics)
                               \cup Range(TECHNICAL_KEYWORDS.general)
                               \cup Range(TECHNICAL_KEYWORDS.behavioral)
        matchedKeywords  == {kw \in relevantKeywords : includes(lowerAnswer, kw)}
        total            == Cardinality(relevantKeywords)
        matchCount       == Cardinality(matchedKeywords)
        \* Math.round(coverageRatio * 10)
        rounded          == IF total > 0 THEN RoundDiv(10 * matchCount, Min(total, 8))
                            ELSE 0
    IN  [ threw           |-> FALSE,
          score           |-> Min(10, rounded),
          matchedKeywords |-> matchedKeywords,
          totalRelevant   |-> total,
          matchCount      |-> matchCount,
          topics          |-> relevantTopics ]

StarComponents == <<"situation", "task", "action", "result">>

evaluateSTARMethod(answer) ==
    LET lowerAnswer == toLowerCase(answer)
        components  == [c \in Range(StarComponents) |->
                           IncludesSome(lowerAnswer, STAR_KEYWORDS[c])]
        coveredCount == Cardinality({c \in Range(StarComponents) : components[c]})
    IN  [ score           |-> RoundDiv(10 * coveredCount, 4),
          components      |-> components,
          coveredCount    |-> coveredCount,
          totalComponents |-> 4 ]

SentenceEnds == {".", "!", "?"}

\* the word count score of evaluateCompleteness
lengthScoreOf(wordCount) ==
    IF wordCount < 10 THEN 2
    ELSE IF wordCount < 20 THEN 4
    ELSE IF wordCount < 30 THEN 6
    ELSE IF wordCount <= 120 THEN 9
    ELSE IF wordCount <= 200 THEN 8
    ELSE 6

\* mutant: an answer without any sentence gets no structure score
structureScoreOf_NoneIsZero(sentenceCount) ==
    IF sentenceCount >= 3 THEN 10
    ELSE IF sentenceCount >= 2 THEN 7
    ELSE IF sentenceCount >= 1 THEN 4
    ELSE 0

\* the sentence count score of evaluateCompleteness
structureScoreOf(sentenceCount) ==
    IF sentenceCount >= 3 THEN 10
    ELSE IF sentenceCount >= 2 THEN 7
    ELSE 4

\* evaluateCompleteness(answer), answer a string
evaluateCompleteness(answer) ==
    LET words         == SelectSeq(SplitRuns(trim(answer), WhiteSpace), NonEmpty)
        wordCount     == Len(words)
        sentences     == SelectSeq(SplitRuns(answer, SentenceEnds),
                                LAMBDA p : Len(trim(p)) > 0)
        sentenceCount == Len(sentences)
        lengthScore   == lengthScoreOf(wordCount)
        structureScore == structureScoreOf(sentenceCount)
        lower         == toLowerCase(answer)
        hasNumbers    == HasDigit(answer)
        hasExamples   == IncludesSome(lower, << "for example", "for instance",
                                               "such as", "like when", "one time" >>)
        hasSpecifics  == IncludesSome(lower, << "specifically", "in particular",
                                               "the key", "the main", "because",
                                               "the reason" >>)
        specificityScore ==
            Min(10, 4 + (IF hasNumbers THEN 2 ELSE 0)
                      + (IF hasExamples THEN 2 ELSE 0)
                      + (IF hasSpecifics THEN 2 ELSE 0))
        starCoverage  == evaluateSTARMethod(answer)
        \* Math.round(length * 0.3 + structure * 0.25 + specificity * 0.25
        \*            + star * 0.2): no sum of these scores is a tie
        overallScore  == RoundDiv(30 * lengthScore + 25 * structureScore
                                  + 25 * specificityScore + 20 * starCoverage.score,
                                  100)
    IN  [ score            |-> Min(10, overallScore),
          wordCount        |-> wordCount,
          sentenceCount    |-> sentenceCount,
          lengthScore      |-> lengthScore,
          structureScore   |-> structureScore,
          specificityScore |-> specificityScore,
          starCoverage     |-> starCoverage,
          hasExamples      |-> hasExamples,
          hasNumbers       |-> hasNumbers ]

assertiveIndicators ==
    << "i am", "i have", "i did", "i will", "i can", "i know", "definitely",
       "certainly", "absolutely", "clearly", "my experience", "i successfully",
       "i led", "i built", "i designed" >>

\* evaluateConfidence(answer), answer a string.  The score is computed in
\* halves: 7 - min(4, 1.5 h) - min(2, 0.5 f) + min(3, a), rounded, in 1..10.
evaluateConfidence(answer) ==
    LET lowerAnswer      == toLowerCase(answer)
        hedgingMatches   == IncludedOf(lowerAnswer, HEDGING_PHRASES)
        hedgingCount     == Len(hedgingMatches)
        fillerMatches    == SelectSeq(FILLER_WORDS,
                                      LAMBDA filler : HasWholeWord(lowerAnswer, filler))
        fillerCount      == Len(fillerMatches)
        assertiveMatches == IncludedOf(lowerAnswer, assertiveIndicators)
        halves           == 14 - Min(8, 3 * hedgingCount) - Min(4, fillerCount)
                               + Min(6, 2 * Len(assertiveMatches))
    IN  [ score             |-> Max(1, Min(10, RoundDiv(halves, 2))),
          hedgingPhrases    |-> hedgingMatches,
          fillerWords       |-> fillerMatches,
          assertiveLanguage |-> assertiveMatches ]

getDimensionRating(score) ==
    IF score >= 8 THEN "excellent"
    ELSE IF score >= 6 THEN "good"
    ELSE IF score >= 4 THEN "average"
    ELSE "needs_improvement"

\* the texts of a list of <<condition, text>> whose condition holds
Pushed(rules) ==
    LET kept == SelectSeq(rules, LAMBDA r : r[1])
    IN  [i \in 1..Len(kept) |-> kept[i][2]]

identifyStrengths(keywords, completeness, confidence, aiScore) ==
    Pushed(<< <<aiScore >= 7, "Strong technical understanding">>,
              <<keywords.score >= 7, "Good use of technical terminology">>,
              <<completeness.score >= 7, "Well-structured and detailed response">>,
              <<completeness.hasExamples, "Provided concrete examples">>,
              <<completeness.hasNumbers, "Used quantifiable data points">>,
              <<confidence.score >= 7, "Confident and assertive communication">>,
              <<completeness.starCoverage.coveredCount >= 3, "Good STAR method structure">>,
              <<Len(confidence.assertiveLanguage) >= 2, "Assertive language patterns">> >>)

identifyWeaknesses(keywords, completeness, confidence, aiScore) ==
    Pushed(<< <<aiScore < 5, "Answer lacks technical accuracy">>,
              <<keywords.score < 4, "Missing key technical terms">>,
              <<completeness.wordCount < 20, "Response is too brief">>,
              <<completeness.wordCount > 200, "Response is too verbose">>,
              <<~completeness.hasExamples, "No concrete examples provided">>,
              <<completeness.structureScore < 5, "Answer lacks structure">>,
              <<confidence.score < 5, "Sounds uncertain or hesitant">>,
              <<Len(confidence.hedgingPhrases) > 3, "Excessive hedging language">>,
              <<Len(confidence.fillerWords) > 2, "Too many filler words">> >>)

generateImprovementTips(keywords, completeness, confidence, aiScore) ==
    Pushed(<< <<keywords.score < 5, "Use more specific technical terms">>,
              <<completeness.wordCount < 20, "Elaborate more">>,
              <<~completeness.hasExamples, "Include specific examples">>,
              <<~completeness.hasNumbers, "Add metrics when possible">>,
              <<confidence.score < 5, "Replace hedging with assertive phrases">>,
              <<Len(confidence.fillerWords) > 2, "Reduce filler words">>,
              <<completeness.starCoverage.coveredCount < 2, "Structure answers using STAR">>,
              <<completeness.structureScore < 5, "Use multiple sentences">>,
              <<aiScore < 5, "Review core concepts">> >>)

\* The weighted sum aiScore * 0.35 + keyword * 0.20 + completeness * 0.25
\* + confidence * 0.20 is evaluated in double precision.  At these scores
\* <<aiScore, keyword, completeness, confidence>> the exact sum is a tie
\* (n + 0.5) and the double sum lies just below it, so Math.round gives n,
\* not n + 1; at every other score with aiScore in -5..15 the double sum
\* rounds as the exact sum does.
CompositeTiesDown ==
    { <<3, 0, 1, 1>>, <<3, 4, 1, 2>>, <<3, 4, 5, 2>>, <<3, 9, 1, 2>>, <<4, 1, 2, 2>>,
      <<4, 1, 6, 2>>, <<6, 0, 0, 2>>, <<6, 0, 4, 2>>, <<6, 2, 0, 5>>, <<6, 3, 8, 4>>,
      <<6, 3, 8, 9>>, <<6, 4, 0, 3>>, <<6, 5, 0, 2>>, <<6, 8, 4, 4>>, <<6, 8, 4, 9>>,
      <<6, 8, 8, 4>>, <<6, 8, 8, 9>>, <<7, 0, 9, 4>>, <<7, 0, 9, 9>>, <<7, 2, 1, 2>>,
      <<7, 5, 5, 4>>, <<7, 5, 5, 9>>, <<7, 5, 9, 4>>, <<7, 5, 9, 9>>, <<7, 10, 1, 4>>,
      <<7, 10, 1, 9>>, <<7, 10, 5, 4>>, <<7, 10, 5, 9>>, <<7, 10, 9, 4>>, <<8, 2, 6, 4>>,
      <<8, 2, 6, 9>>, <<8, 2, 10, 4>>, <<8, 2, 10, 9>>, <<11, 3, 1, 4>>, <<11, 3, 1, 9>>,
      <<11, 3, 5, 4>>, <<11, 3, 5, 9>>, <<11, 3, 9, 4>>, <<11, 8, 1, 4>>, <<11, 8, 1, 9>>,
      <<11, 8, 5, 4>>, <<12, 0, 2, 4>>, <<12, 0, 2, 9>>, <<12, 0, 6, 4>>, <<12, 0, 6, 9>>,
      <<12, 0, 10, 4>>, <<12, 3, 2, 1>>, <<12, 3, 2, 6>>, <<12, 3, 6, 1>>, <<12, 3, 6, 6>>,
      <<12, 3, 10, 1>>, <<12, 4, 2, 5>>, <<12, 4, 2, 10>>, <<12, 4, 6, 5>>, <<12, 5, 2, 4>>,
      <<12, 5, 2, 9>>, <<12, 5, 6, 4>>, <<12, 8, 2, 1>>, <<12, 8, 2, 6>>, <<12, 8, 6, 1>>,
      <<12, 8, 10, 1>>, <<12, 9, 2, 5>>, <<12, 10, 2, 4>>, <<14, 4, 0, 4>>, <<14, 4, 0, 9>>,
      <<14, 4, 4, 4>>, <<14, 9, 0, 4>>, <<14, 10, 8, 3>>, <<14, 10, 8, 8>> }

\* mutant: the weights of aiScore and completeness are exchanged
WeightedRound_Swapped(aiScore, keyword, completeness, confidence) ==
    RoundDiv(25 * aiScore + 20 * keyword + 35 * completeness + 20 * confidence, 100)

\* Math.round(aiScore * 0.35 + keyword * 0.20 + completeness * 0.25
\*            + confidence * 0.20)
WeightedRound(aiScore, keyword, completeness, confidence) ==
    RoundDiv(35 * aiScore + 20 * keyword + 25 * completeness + 20 * confidence, 100)
        - (IF <<aiScore, keyword, completeness, confidence>> \in CompositeTiesDown
           THEN 1 ELSE 0)

\* evaluateAnswer from its three analyses of the text on: the composite
\* score, the dimensions, strengths, weaknesses and tips
evaluateAnswerFrom(keywordAnalysis, completenessAnalysis, confidenceAnalysis, aiScore) ==
    LET compositeScore ==
            WeightedRound(aiScore, keywordAnalysis.score,
                          completenessAnalysis.score, confidenceAnalysis.score)
    IN  [ threw          |-> FALSE,
          compositeScore |-> Min(10, compositeScore),
          dimensions     |->
            [ aiJudgment      |-> [ score  |-> aiScore,
                                    rating |-> getDimensionRating(aiScore),
                                    weight |-> 35 ],
              keywordCoverage |-> [ analysis |-> keywordAnalysis,
                                    score    |-> keywordAnalysis.score,
                                    rating   |-> getDimensionRating(keywordAnalysis.score),
                                    weight   |-> 20 ],
              completeness    |-> [ analysis |-> completenessAnalysis,
                                    score    |-> completenessAnalysis.score,
                                    rating   |-> getDimensionRating(completenessAnalysis.score),
                                    weight   |-> 25 ],
              confidence      |-> [ analysis |-> confidenceAnalysis,
                                    score    |-> confidenceAnalysis.score,
                                    rating   |-> getDimensionRating(confidenceAnalysis.score),
                                    weight   |-> 20 ] ],
          strengths  |-> identifyStrengths(keywordAnalysis, completenessAnalysis,
                                           confidenceAnalysis, aiScore),
          weaknesses |-> identifyWeaknesses(keywordAnalysis, completenessAnalysis,
                                            confidenceAnalysis, aiScore),
          tips       |-> generateImprovementTips(keywordAnalysis, completenessAnalysis,
                                                 confidenceAnalysis, aiScore) ]

\* evaluateAnswer(answer, question, aiScore): the AnswerEvaluation, or the
\* error thrown by evaluateKeywordCoverage
evaluateAnswer(answer, question, aiScore) ==
    LET keywordAnalysis == evaluateKeywordCoverage(answer, question)
    IN  IF keywordAnalysis.threw THEN keywordAnalysis
        ELSE evaluateAnswerFrom(keywordAnalysis, evaluateCompleteness(answer.v),
                                evaluateConfidence(answer.v), aiScore)

----------------------------------------------------------------------------
(* anti-cheat.js : AntiCheatMonitor.  Times are in milliseconds.  A ratio   *)
(* of word counts is kept as the exact fraction <<numerator, denominator>>. *)

MIN_RESPONSE_TIME_SEC == 3
MAX_NATURAL_WPM == 200
\* COMPLEXITY_SPIKE_THRESHOLD, 2.5, as the fraction 5 / 2
COMPLEXITY_SPIKE_THRESHOLD == <<5, 2>>
\* mutant: the pattern checks start one answer earlier
MIN_ANSWERS_FOR_ANALYSIS_Early == 3 - 1

MIN_ANSWERS_FOR_ANALYSIS == 3
LOW_SUSPICION == 20
MEDIUM_SUSPICION == 40
HIGH_SUSPICION == 60

RECURSIVE Gcd(_, _)
Gcd(a, b) == IF b = 0 THEN a ELSE Gcd(b, a % b)

\* a / b in lowest terms, b > 0
Frac(a, b) == LET g == Gcd(a, b) IN IF a = 0 THEN <<0, 1>> ELSE <<a \div g, b \div g>>

FracAdd(x, y) == Frac(x[1] * y[2] + y[1] * x[2], x[2] * y[2])

RECURSIVE FracSum(_)
\* arr.reduce((a, b) => a + b, 0) of fractions
FracSum(arr) == IF arr = <<>> THEN <<0, 1>> ELSE FracAdd(arr[1], FracSum(Tail(arr)))

\* new AntiCheatMonitor()
AntiCheatMonitor ==
    [ responseTimings        |-> <<>>,
      responseLengths        |-> <<>>,
      vocabularyComplexities |-> <<>>,
      flags                  |-> <<>>,
      lastQuestionTime       |-> Null,
      overallSuspicionScore  |-> 0 ]

\* mutant: a new question also starts a new flag list and score
questionAsked_StartsOver(m, now) ==
    [m EXCEPT !.lastQuestionTime = [isNull |-> FALSE, at |-> now],
              !.flags = <<>>,
              !.overallSuspicionScore = 0]

\* questionAsked(): the monitor after the call at time now
questionAsked(m, now) == [m EXCEPT !.lastQuestionTime = [isNull |-> FALSE, at |-> now]]

\* detectRepetitivePatterns(text): the three-word phrases that occur more
\* than once
detectRepetitivePatterns(text) ==
    LET words    == SplitRuns(toLowerCase(text), WhiteSpace)
        trigrams == [i \in 1..(Len(words) - 2) |->
                        words[i] \o " " \o words[i + 1] \o " " \o words[i + 2]]
    IN  {trigrams[i] : i \in {i \in DOMAIN trigrams :
                                 \E j \in DOMAIN trigrams : j # i /\ trigrams[j] = trigrams[i]}}

\* what analyzeAnswer reads of the text of an answer
TextMetrics(answer) ==
    LET words == SelectSeq(SplitRuns(trim(answer), WhiteSpace), NonEmpty)
    IN  [ wordCount       |-> Len(words),
          longWords       |-> Len(SelectSeq(words, LAMBDA w : Len(w) > 6)),
          repeatedPhrases |-> Cardinality(detectRepetitivePatterns(answer)) ]

\* The running score Math.round(score * 0.7 + points * 0.3) is evaluated in
\* double precision.  At these <<score, points>> the exact value is a tie
\* (n + 0.5) and the double value lies just below it, so Math.round gives
\* n, not n + 1; at every other score in 0..100 and point total in 0..90
\* the double value rounds as the exact value does.
SuspicionTiesDown == { <<45, 0>>, <<85, 0>>, <<85, 10>> }

\* mutant: the weighted mean rounded up
nextSuspicionScore_Ceil(score, points) ==
    Min(100, (7 * score + 3 * points + 9) \div 10)

\* mutant: a simple sum, the new points added to the old score
nextSuspicionScore_Sum(score, points) ==
    Min(100, score + RoundDiv(3 * points, 10))

\* mutant: the weights of the old score and of the new points are exchanged
nextSuspicionScore_Swapped(score, points) ==
    Min(100, RoundDiv(3 * score + 7 * points, 10))

\* Math.min(100, Math.round(score * 0.7 + points * 0.3))
nextSuspicionScore(score, points) ==
    Min(100, RoundDiv(7 * score + 3 * points, 10)
                - (IF <<score, points>> \in SuspicionTiesDown THEN 1 ELSE 0))

\* _getSuspicionLevel()
getSuspicionLevel(m) ==
    IF m.overallSuspicionScore >= HIGH_SUSPICION THEN "high"
    ELSE IF m.overallSuspicionScore >= MEDIUM_SUSPICION THEN "medium"
    ELSE IF m.overallSuspicionScore >= LOW_SUSPICION THEN "low"
    ELSE "clean"

Flag(type, severity, points) == [type |-> type, severity |-> severity, points |-> points]

RECURSIVE SumPoints(_)
\* answerFlags.reduce((sum, f) => sum + f.points, 0)
SumPoints(fs) == IF fs = <<>> THEN 0 ELSE fs[1].points + SumPoints(Tail(fs))

\* analyzeAnswer(answer, score) at time now, answer a string with the
\* metrics t: the flags raised for this answer.  responseTimeMs is Null
\* when no question was stamped or no millisecond has passed since.
answerFlagsOf(m, t, score, now) ==
    LET responseTimeMs == IF m.lastQuestionTime.isNull THEN Null
                          ELSE IF now - m.lastQuestionTime.at = 0 THEN Null
                          ELSE [isNull |-> FALSE, ms |-> now - m.lastQuestionTime.at]
        timed          == ~responseTimeMs.isNull
        wordCount      == t.wordCount
        complexityRatio == IF wordCount > 0 THEN Frac(t.longWords, wordCount) ELSE <<0, 1>>
        responseLengths == Append(m.responseLengths, wordCount)
        vocabularyComplexities == Append(m.vocabularyComplexities, complexityRatio)
        previousLengths == SubSeq(responseLengths, 1, Len(responseLengths) - 1)
        previousComplexities ==
            SubSeq(vocabularyComplexities, 1, Len(vocabularyComplexities) - 1)
        sumComplexity  == FracSum(previousComplexities)
    IN  Pushed(<<
          \* 1: responseTimeSec < MIN_RESPONSE_TIME_SEC && wordCount > 20
          << timed /\ responseTimeMs.ms < 1000 * MIN_RESPONSE_TIME_SEC /\ wordCount > 20,
             Flag("fast_response", "medium", 15) >>,
          \* 2: (wordCount / responseTimeSec) * 60 > MAX_NATURAL_WPM && wordCount > 15
          << timed /\ wordCount * 60 * 1000 > MAX_NATURAL_WPM * responseTimeMs.ms
                   /\ wordCount > 15,
             Flag("high_wpm", "high", 25) >>,
          \* 3: avgPrevLength > 0 && wordCount > avgPrevLength * 3 && wordCount > 50
          << /\ Len(responseLengths) >= MIN_ANSWERS_FOR_ANALYSIS
             /\ SumSeq(previousLengths) > 0
             /\ wordCount * Len(previousLengths) > SumSeq(previousLengths) * 3
             /\ wordCount > 50,
             Flag("length_spike", "medium", 15) >>,
          \* 4: avgComplexity > 0 && complexityRatio > avgComplexity * 2.5
          << /\ Len(vocabularyComplexities) >= MIN_ANSWERS_FOR_ANALYSIS
             /\ sumComplexity[1] > 0
             /\ complexityRatio[1] * sumComplexity[2] * Len(previousComplexities)
                   * COMPLEXITY_SPIKE_THRESHOLD[2]
                  > sumComplexity[1] * COMPLEXITY_SPIKE_THRESHOLD[1] * complexityRatio[2],
             Flag("complexity_spike", "low", 10) >>,
          \* 5: responseTimeSec < 5 && score >= 9 && wordCount > 30
          << timed /\ responseTimeMs.ms < 5000 /\ score >= 9 /\ wordCount > 30,
             Flag("score_timing_mismatch", "high", 20) >>,
          \* 6: repeatedPhrases.length > 2
          << t.repeatedPhrases > 2,
             Flag("repetitive_pattern", "low", 5) >>
        >>)

\* mutant: without the test of lastQuestionTime, now - null being now
analyzeAnswerWith_Unguarded(m, t, score, now) ==
    LET stamped     == IF m.lastQuestionTime.isNull
                       THEN [m EXCEPT !.lastQuestionTime = [isNull |-> FALSE, at |-> 0]]
                       ELSE m
        timed       == now - stamped.lastQuestionTime.at # 0
        answerFlags == answerFlagsOf(stamped, t, score, now)
        answerPoints == SumPoints(answerFlags)
        after == [m EXCEPT
                    !.responseLengths = Append(@, t.wordCount),
                    !.vocabularyComplexities =
                        Append(@, IF t.wordCount > 0 THEN Frac(t.longWords, t.wordCount)
                                  ELSE <<0, 1>>),
                    !.responseTimings =
                        IF timed THEN Append(@, now - stamped.lastQuestionTime.at) ELSE @,
                    !.flags = @ \o answerFlags,
                    !.overallSuspicionScore = nextSuspicionScore(@, answerPoints)]
    IN  [ monitor |-> after,
          result  |-> [ flags                 |-> answerFlags,
                        answerSuspicionPoints |-> answerPoints,
                        overallSuspicionScore |-> after.overallSuspicionScore,
                        suspicionLevel        |-> getSuspicionLevel(after),
                        wordCount             |-> t.wordCount ] ]

\* analyzeAnswer(answer, score) at time now: the monitor after the call and
\* the value returned
analyzeAnswerWith(m, t, score, now) ==
    LET timed       == ~m.lastQuestionTime.isNull /\ now - m.lastQuestionTime.at # 0
        answerFlags == answerFlagsOf(m, t, score, now)
        answerPoints == SumPoints(answerFlags)
        after == [m EXCEPT
                    !.responseLengths = Append(@, t.wordCount),
                    !.vocabularyComplexities =
                        Append(@, IF t.wordCount > 0 THEN Frac(t.longWords, t.wordCount)
                                  ELSE <<0, 1>>),
                    !.responseTimings =
                        IF timed THEN Append(@, now - m.lastQuestionTime.at) ELSE @,
                    !.flags = @ \o answerFlags,
                    !.overallSuspicionScore = nextSuspicionScore(@, answerPoints)]
    IN  [ monitor |-> after,
          result  |-> [ flags                 |-> answerFlags,
                        answerSuspicionPoints |-> answerPoints,
                        overallSuspicionScore |-> after.overallSuspicionScore,
                        suspicionLevel        |-> getSuspicionLevel(after),
                        wordCount             |-> t.wordCount ] ]

\* _getVerdict()
getVerdict(m) ==
    LET level == getSuspicionLevel(m)
    IN  IF level = "high"
          THEN "Multiple suspicious patterns detected. Manual review recommended."
        ELSE IF level = "medium"
          THEN "Some irregular patterns noted. Results may need verification."
        ELSE IF level = "low"
          THEN "Minor irregularities detected. Generally reliable results."
        ELSE "No suspicious patterns detected. Results are reliable."

RECURSIVE RoundedRoot(_, _, _, _)
\* the least r in lo..hi with 400 * q < ((2 * r + 1) * n)^2, which is
\* sqrt(q) / n in tenths, rounded
RoundedRoot(q, n, lo, hi) ==
    IF lo >= hi THEN lo
    ELSE LET mid == (lo + hi) \div 2
         IN  IF 400 * q < (2 * mid + 1) * (2 * mid + 1) * n * n
             THEN RoundedRoot(q, n, lo, mid)
             ELSE RoundedRoot(q, n, mid + 1, hi)

RECURSIVE SumSquares(_)
SumSquares(arr) == IF arr = <<>> THEN 0 ELSE arr[1] * arr[1] + SumSquares(Tail(arr))

\* Math.round(calculateStdDev(values) * 10), the standard deviation in
\* tenths: sqrt(n * sum(v^2) - sum(v)^2) / n, to the nearest tenth
StdDevTenths(values) ==
    LET n == Len(values)
        q == n * SumSquares(values) - SumSeq(values) * SumSeq(values)
    IN  RoundedRoot(q, n, 0, 10 * SumSeq(values) + 1)

\* getIntegrityReport().  Averages and the deviation are in tenths, the
\* fastest and the slowest response in milliseconds.
getIntegrityReport(m) ==
    LET totalFlags == Len(m.flags)
        high   == Len(SelectSeq(m.flags, LAMBDA f : f.severity = "high"))
        medium == Len(SelectSeq(m.flags, LAMBDA f : f.severity = "medium"))
        timings == m.responseTimings
        timed  == Len(timings) > 0
    IN  [ overallSuspicionScore |-> m.overallSuspicionScore,
          suspicionLevel        |-> getSuspicionLevel(m),
          totalFlags            |-> totalFlags,
          flagBreakdown         |-> [high |-> high, medium |-> medium,
                                     low |-> totalFlags - high - medium],
          flags                 |-> m.flags,
          timing |->
            [ averageResponseTimeSec |->
                  IF timed THEN [isNull |-> FALSE,
                                 tenths |-> RoundDiv(SumSeq(timings), 100 * Len(timings))]
                  ELSE Null,
              fastestResponseSec |->
                  IF timed THEN [isNull |-> FALSE,
                                 ms |-> CHOOSE x \in Range(timings) :
                                            \A y \in Range(timings) : x <= y]
                  ELSE Null,
              slowestResponseSec |->
                  IF timed THEN [isNull |-> FALSE,
                                 ms |-> CHOOSE x \in Range(timings) :
                                            \A y \in Range(timings) : x >= y]
                  ELSE Null ],
          responseLengthConsistency |->
            [ averageWords |->
                  IF Len(m.responseLengths) > 0
                  THEN RoundDiv(SumSeq(m.responseLengths), Len(m.responseLengths))
                  ELSE 0,
              standardDeviation |->
                  IF Len(m.responseLengths) >= 2 THEN StdDevTenths(m.responseLengths)
                  ELSE 0 ],
          verdict |-> getVerdict(m) ]

\* serialize() of the monitor: lastQuestionTime is not among the fields
serializeMonitor(m) ==
    [ responseTimings        |-> m.responseTimings,
      responseLengths        |-> m.responseLengths,
      vocabularyComplexities |-> m.vocabularyComplexities,
      flags                  |-> m.flags,
      overallSuspicionScore  |-> m.overallSuspicionScore ]

----------------------------------------------------------------------------
(* adaptive.js : AdaptiveDifficultyManager *)

\* mutant: Medium moves down at the average at which Easy moves up
DIFFICULTY_LEVELS_NoGap ==
    [l \in 1..3 |->
        CASE l = 1 -> [name |-> "Easy",   up |-> {7}, down |-> {}]
          [] l = 2 -> [name |-> "Medium", up |-> {8}, down |-> {7}]
          [] l = 3 -> [name |-> "Hard",   up |-> {},  down |-> {5}]]

\* scoreThreshold.up / .down: the set holding the threshold, empty for null
DIFFICULTY_LEVELS ==
    [l \in 1..3 |->
        CASE l = 1 -> [name |-> "Easy",   up |-> {7}, down |-> {}]
          [] l = 2 -> [name |-> "Medium", up |-> {8}, down |-> {4}]
          [] l = 3 -> [name |-> "Hard",   up |-> {},  down |-> {5}]]

QUESTION_TYPES ==
    << "technical", "behavioral", "technical", "problem_solving", "technical",
       "behavioral", "technical", "system_design", "situational", "technical" >>

\* options.startLevel || 1 and options.windowSize || 3; 0 stands for an
\* option that is not given
AdaptiveDifficultyManager(startLevel, windowSize) ==
    LET level == IF startLevel = 0 THEN 1 ELSE startLevel
    IN  [ currentLevel    |-> level,
          windowSize      |-> IF windowSize = 0 THEN 3 ELSE windowSize,
          scoreHistory    |-> <<>>,
          levelHistory    |-> <<level>>,
          questionIndex   |-> 0,
          followUpPending |-> FALSE,
          followUpContext |-> Null,
          adaptationLog   |-> <<>> ]

\* mutant: the up threshold of Medium is used at every level and the result
\* is not clamped
NextLevel_Unclamped(level, total, count, recorded) ==
    IF recorded >= 2 /\ total >= 8 * count THEN level + 1 ELSE level

\* mutant: the level is first adjusted at the third score
NextLevel_LateStart(level, total, count, recorded) ==
    LET config == DIFFICULTY_LEVELS[level]
    IN  IF recorded >= 3
        THEN IF \E up \in config.up : total >= up * count
             THEN Min(3, level + 1)
             ELSE IF \E down \in config.down : total <= down * count
                  THEN Max(1, level - 1)
                  ELSE level
        ELSE level

\* mutant: the thresholds are compared strictly
NextLevel_Strict(level, total, count, recorded) ==
    LET config == DIFFICULTY_LEVELS[level]
    IN  IF recorded >= 2
        THEN IF \E up \in config.up : total > up * count
             THEN Min(3, level + 1)
             ELSE IF \E down \in config.down : total < down * count
                  THEN Max(1, level - 1)
                  ELSE level
        ELSE level

\* the level recordScore moves to: avgScore = total / count is compared with
\* the thresholds of the current level, once two scores are recorded
NextLevel(level, total, count, recorded) ==
    LET config == DIFFICULTY_LEVELS[level]
    IN  IF recorded >= 2
        THEN IF \E up \in config.up : total >= up * count
             THEN Min(3, level + 1)
             ELSE IF \E down \in config.down : total <= down * count
                  THEN Max(1, level - 1)
                  ELSE level
        ELSE level

\* recordScore(score): the manager after the call.  avgScore10 is the
\* entry's avgScore (one decimal) times ten.
recordScore(m, score, now) ==
    LET scoreHistory == Append(m.scoreHistory, score)
        recentScores == SliceLast(scoreHistory, m.windowSize)
        total        == SumSeq(recentScores)
        count        == Len(recentScores)
        previousLevel == m.currentLevel
        newLevel     == NextLevel(previousLevel, total, count, Len(scoreHistory))
        entry == [ questionIndex |-> m.questionIndex,
                   score         |-> score,
                   avgScore10    |-> RoundDiv(10 * total, count),
                   previousLevel |-> previousLevel,
                   newLevel      |-> newLevel,
                   changed       |-> previousLevel # newLevel,
                   timestamp     |-> now ]
    IN  [m EXCEPT !.scoreHistory  = scoreHistory,
                  !.currentLevel  = newLevel,
                  !.adaptationLog = Append(@, entry),
                  !.levelHistory  = Append(@, newLevel)]

\* getState().  recentAverage is the average (one decimal) times ten.
getState(m) ==
    LET recentScores == SliceLast(m.scoreHistory, m.windowSize)
    IN  [ currentLevel     |-> m.currentLevel,
          currentLevelName |-> DIFFICULTY_LEVELS[m.currentLevel].name,
          questionIndex    |-> m.questionIndex,
          totalAnswers     |-> Len(m.scoreHistory),
          recentAverage    |-> IF Len(recentScores) > 0
                               THEN RoundDiv(10 * SumSeq(recentScores), Len(recentScores))
                               ELSE 0,
          scoreHistory     |-> m.scoreHistory,
          levelHistory     |-> m.levelHistory,
          adaptationLog    |-> m.adaptationLog ]

\* DIFFICULTY_LEVELS[level].promptModifier
promptModifier ==
    [l \in 1..3 |->
        CASE l = 1 -> "Ask a basic, introductory-level question about fundamentals or definitions."
          [] l = 2 -> "Ask a moderate-difficulty question involving practical application or scenario-based thinking."
          [] l = 3 -> "Ask an advanced, challenging question about system design, edge cases, or deep technical concepts."]

QUESTION_TYPE_PROMPTS ==
    [ technical       |-> "Ask a technical question about programming concepts, algorithms, or specific technologies.",
      behavioral      |-> "Ask a behavioral question using the STAR format (e.g., \"Tell me about a time when...\")",
      problem_solving |-> "Present a coding or problem-solving scenario and ask how they would approach it.",
      system_design   |-> "Ask a system design question about architecture, scalability, or infrastructure.",
      situational     |-> "Ask a situational question about how they would handle a hypothetical workplace scenario." ]

\* s.substring(0, n)
substring0(s, n) == SubSeq(s, 1, Min(n, Len(s)))

\* _generateFollowUpPrompt(score, question, answer)
generateFollowUpPrompt(score, question, answer) ==
    IF score <= 4
    THEN "The candidate's answer was incomplete or unclear. They said: \""
         \o substring0(answer, 100)
         \o "...\" Ask a targeted follow-up to help them demonstrate their knowledge better. For example: \"Can you be more specific about...\" or \"What exactly do you mean by...\""
    ELSE "The candidate gave a partial answer. They said: \""
         \o substring0(answer, 100)
         \o "...\" Ask them to elaborate on a specific aspect they mentioned but didn't fully explain."

\* mutant: a call that triggers no follow-up leaves the flag and the context
shouldFollowUp_KeepsPending(m, score, question, answer) ==
    LET context == [question |-> question, answer |-> answer, score |-> score]
        pending == [m EXCEPT !.followUpPending = TRUE, !.followUpContext = context]
    IN  IF score >= 3 /\ score <= 6 /\ ~m.followUpPending
        THEN [ manager |-> pending,
               result  |-> [ shouldFollowUp |-> TRUE,
                             reason |-> IF score <= 4 THEN "incomplete_answer"
                                        ELSE "can_elaborate",
                             prompt |-> generateFollowUpPrompt(score, question, answer) ] ]
        ELSE IF score >= 8 /\ m.questionIndex % 3 = 0 /\ ~m.followUpPending
        THEN [ manager |-> pending,
               result  |-> [ shouldFollowUp |-> TRUE,
                             reason |-> "probe_deeper",
                             prompt |-> "The candidate gave an excellent answer. Ask a deeper follow-up question to probe their understanding further. Reference their previous answer: \""
                                        \o substring0(answer, 100) \o "...\"" ] ]
        ELSE [ manager |-> m,
               result  |-> [ shouldFollowUp |-> FALSE ] ]

\* shouldFollowUp(score, question, answer): the manager after the call and
\* the decision returned
shouldFollowUp(m, score, question, answer) ==
    LET context == [question |-> question, answer |-> answer, score |-> score]
        pending == [m EXCEPT !.followUpPending = TRUE, !.followUpContext = context]
    IN  IF score >= 3 /\ score <= 6 /\ ~m.followUpPending
        THEN [ manager |-> pending,
               result  |-> [ shouldFollowUp |-> TRUE,
                             reason |-> IF score <= 4 THEN "incomplete_answer"
                                        ELSE "can_elaborate",
                             prompt |-> generateFollowUpPrompt(score, question, answer) ] ]
        ELSE IF score >= 8 /\ m.questionIndex % 3 = 0 /\ ~m.followUpPending
        THEN [ manager |-> pending,
               result  |-> [ shouldFollowUp |-> TRUE,
                             reason |-> "probe_deeper",
                             prompt |-> "The candidate gave an excellent answer. Ask a deeper follow-up question to probe their understanding further. Reference their previous answer: \""
                                        \o substring0(answer, 100) \o "...\"" ] ]
        ELSE [ manager |-> [m EXCEPT !.followUpPending = FALSE,
                                     !.followUpContext = Null],
               result  |-> [ shouldFollowUp |-> FALSE ] ]

\* mutant: the question index advances for a follow-up as well
getNextQuestionConfig_Advances(m) ==
    LET level        == m.currentLevel
        typeIndex    == m.questionIndex % Len(QUESTION_TYPES)
        questionType == QUESTION_TYPES[typeIndex + 1]
        typePrompt   == QUESTION_TYPE_PROMPTS[questionType]
    IN  IF m.followUpPending /\ m.followUpContext # Null
        THEN [ manager |-> [m EXCEPT !.followUpPending = FALSE,
                                     !.questionIndex = @ + 1],
               config  |-> [ difficulty     |-> level,
                             difficultyName |-> DIFFICULTY_LEVELS[level].name,
                             questionType   |-> "follow_up",
                             isFollowUp     |-> TRUE,
                             prompt |-> "Ask a follow-up question about: \""
                                        \o m.followUpContext.question \o "\"" ] ]
        ELSE [ manager |-> [m EXCEPT !.questionIndex = @ + 1],
               config  |-> [ difficulty     |-> level,
                             difficultyName |-> DIFFICULTY_LEVELS[level].name,
                             questionType   |-> questionType,
                             isFollowUp     |-> FALSE,
                             prompt |-> promptModifier[level] \o " " \o typePrompt ] ]

\* getNextQuestionConfig(): the manager after the call and the configuration
\* returned.  shouldFollowUp stores { question, answer, score } as the
\* context, so this.followUpContext.prompt is undefined and the || takes
\* its right side.
getNextQuestionConfig(m) ==
    LET level        == m.currentLevel
        typeIndex    == m.questionIndex % Len(QUESTION_TYPES)
        questionType == QUESTION_TYPES[typeIndex + 1]
        typePrompt   == QUESTION_TYPE_PROMPTS[questionType]
    IN  IF m.followUpPending /\ m.followUpContext # Null
        THEN [ manager |-> [m EXCEPT !.followUpPending = FALSE],
               config  |-> [ difficulty     |-> level,
                             difficultyName |-> DIFFICULTY_LEVELS[level].name,
                             questionType   |-> "follow_up",
                             isFollowUp     |-> TRUE,
                             prompt |-> "Ask a follow-up question about: \""
                                        \o m.followUpContext.question \o "\"" ] ]
        ELSE [ manager |-> [m EXCEPT !.questionIndex = @ + 1],
               config  |-> [ difficulty     |-> level,
                             difficultyName |-> DIFFICULTY_LEVELS[level].name,
                             questionType   |-> questionType,
                             isFollowUp     |-> FALSE,
                             prompt |-> promptModifier[level] \o " " \o typePrompt ] ]

\* AdaptiveDifficultyManager.serialize()
serializeManager(m) ==
    [ currentLevel    |-> m.currentLevel,
      windowSize      |-> m.windowSize,
      scoreHistory    |-> m.scoreHistory,
      levelHistory    |-> m.levelHistory,
      questionIndex   |-> m.questionIndex,
      followUpPending |-> m.followUpPending,
      followUpContext |-> m.followUpContext,
      adaptationLog   |-> m.adaptationLog ]

\* mutant: the manager the constructor makes, with the scores only
fromSerialized_Fresh(data) ==
    [AdaptiveDifficultyManager(data.currentLevel, data.windowSize)
        EXCEPT !.scoreHistory = data.scoreHistory]

\* AdaptiveDifficultyManager.fromSerialized(data): the constructor with
\* data.currentLevel and data.windowSize, then each field from data || its
\* default (an array is truthy even when empty; 0, false and null are not)
fromSerialized(data) ==
    [AdaptiveDifficultyManager(data.currentLevel, data.windowSize)
        EXCEPT !.scoreHistory    = data.scoreHistory,
               !.levelHistory    = data.levelHistory,
               !.questionIndex   = IF data.questionIndex = 0 THEN 0
                                   ELSE data.questionIndex,
               !.followUpPending = IF data.followUpPending THEN TRUE ELSE FALSE,
               !.followUpContext = IF data.followUpContext = Null THEN Null
                                   ELSE data.followUpContext,
               !.adaptationLog   = data.adaptationLog]

----------------------------------------------------------------------------
(* skill-gap.js : SkillGapDetector.  topicScores and questionTypeScores are *)
(* objects whose keys keep the order in which they were added: each is the  *)
(* sequence of its entries <<key, scores>>.                                 *)

ROLE_BASELINES ==
    [ junior |-> [ technical |-> 5, behavioral |-> 5, problem_solving |-> 4,
                   system_design |-> 3, communication |-> 5 ],
      mid    |-> [ technical |-> 7, behavioral |-> 6, problem_solving |-> 6,
                   system_design |-> 5, communication |-> 6 ],
      senior |-> [ technical |-> 8, behavioral |-> 7, problem_solving |-> 8,
                   system_design |-> 7, communication |-> 7 ] ]

\* the entries of TOPIC_PATTERNS, in the order of the object literal
TOPIC_PATTERNS ==
    << <<"JavaScript/TypeScript", <<"javascript", "typescript", "js", "ts", "node", "es6", "ecmascript", "v8", "npm">> >>,
       <<"React/Frontend", <<"react", "component", "hook", "frontend", "css", "html", "dom", "ui", "ux", "next.js", "vue", "angular">> >>,
       <<"Backend/API", <<"backend", "api", "rest", "graphql", "server", "express", "endpoint", "middleware", "authentication">> >>,
       <<"Database", <<"database", "sql", "nosql", "query", "schema", "migration", "orm", "mongo", "postgres", "redis">> >>,
       <<"System Design", <<"system design", "architecture", "scalab", "microservice", "distributed", "load balanc", "caching">> >>,
       <<"Data Structures", <<"array", "linked list", "tree", "graph", "hash", "stack", "queue", "heap", "data structure">> >>,
       <<"Algorithms", <<"algorithm", "sorting", "searching", "recursion", "dynamic programming", "complexity", "big o", "time complexity">> >>,
       <<"DevOps/CI-CD", <<"docker", "kubernetes", "ci/cd", "pipeline", "deployment", "aws", "cloud", "devops", "terraform">> >>,
       <<"Testing", <<"testing", "unit test", "integration test", "e2e", "jest", "cypress", "tdd", "coverage", "mock">> >>,
       <<"Security", <<"security", "xss", "csrf", "authentication", "authorization", "encryption", "vulnerability", "owasp">> >>,
       <<"Leadership", <<"leadership", "mentor", "team lead", "manage", "delegate", "vision", "strategy">> >>,
       <<"Problem Solving", <<"problem solving", "approach", "debug", "troubleshoot", "root cause", "analyze", "optimize">> >>,
       <<"Communication", <<"communicate", "present", "explain", "stakeholder", "collaborate", "feedback", "documentation">> >> >>

\* new SkillGapDetector(roleLevel)
SkillGapDetector(roleLevel) ==
    [ roleLevel          |-> roleLevel,
      baseline           |-> IF roleLevel \in DOMAIN ROLE_BASELINES
                             THEN ROLE_BASELINES[roleLevel] ELSE ROLE_BASELINES.mid,
      topicScores        |-> <<>>,
      questionTypeScores |-> <<>>,
      questionsAnalyzed  |-> 0 ]

\* _detectTopics(question)
detectTopics(question) ==
    LET lower    == toLowerCase(question)
        matching == SelectSeq(TOPIC_PATTERNS, LAMBDA entry : IncludesSome(lower, entry[2]))
        detected == [i \in 1..Len(matching) |-> matching[i][1]]
    IN  IF Len(detected) = 0 THEN <<"General">> ELSE detected

\* if (!scores[key]) scores[key] = []; scores[key].push(score)
PushScore(entries, key, score) ==
    IF \E i \in 1..Len(entries) : entries[i][1] = key
    THEN [i \in 1..Len(entries) |->
             IF entries[i][1] = key THEN <<key, Append(entries[i][2], score)>>
             ELSE entries[i]]
    ELSE Append(entries, <<key, <<score>> >>)

RECURSIVE PushScores(_, _, _)
\* for (const topic of detectedTopics) ... push(score)
PushScores(entries, keys, score) ==
    IF keys = <<>> THEN entries
    ELSE PushScores(PushScore(entries, Head(keys), score), Tail(keys), score)

\* _getTopicAverages() and _getTypeAverages(): each entry with its average
\* (one decimal) times ten
AveragesOf(entries) ==
    [i \in 1..Len(entries) |->
        <<entries[i][1], RoundDiv(10 * SumSeq(entries[i][2]), Len(entries[i][2]))>>]

\* trackAnswer(question, answer, score, questionType), with the topics
\* _detectTopics found in the question: the detector after the call and the
\* value returned
trackAnswerWith(d, detectedTopics, score, questionType) ==
    LET after == [d EXCEPT !.questionsAnalyzed = @ + 1,
                           !.topicScores = PushScores(@, detectedTopics, score),
                           !.questionTypeScores = PushScore(@, questionType, score)]
    IN  [ detector |-> after,
          result   |-> [ detectedTopics |-> detectedTopics,
                         questionType   |-> questionType,
                         score          |-> score,
                         topicAverages  |-> AveragesOf(after.topicScores) ] ]

\* _getBaselineForTopic(topic): the baseline of the category of the topic
getBaselineForTopic(d, topic) ==
    LET category ==
            IF topic = "System Design" THEN "system_design"
            ELSE IF topic \in {"Algorithms", "Problem Solving"} THEN "problem_solving"
            ELSE IF topic = "Leadership" THEN "behavioral"
            ELSE IF topic = "Communication" THEN "communication"
            ELSE "technical"
    IN  IF d.baseline[category] = 0 THEN 5 ELSE d.baseline[category]

RECURSIVE SortDesc(_)
\* Array.prototype.sort((a, b) => b.key - a.key) of the entries <<key, item>>:
\* descending by key, entries of equal key in their order
SortDesc(entries) ==
    IF entries = <<>> THEN <<>>
    ELSE LET rest   == SortDesc(Tail(entries))
             before == Cardinality({ i \in 1..Len(rest) : rest[i][1] > Head(entries)[1] })
         IN  SubSeq(rest, 1, before) \o <<Head(entries)>>
                 \o SubSeq(rest, before + 1, Len(rest))

\* mutant: a deficit of exactly 3 is significant
severityOf_Above(deficit) ==
    IF deficit > 30 THEN "critical"
    ELSE IF deficit >= 15 THEN "significant" ELSE "minor"

\* deficit >= 3 ? 'critical' : deficit >= 1.5 ? 'significant' : 'minor',
\* the deficit in tenths
severityOf(deficit) ==
    IF deficit >= 30 THEN "critical"
    ELSE IF deficit >= 15 THEN "significant" ELSE "minor"

\* getAnalysis(): roleLevel, questionsAnalyzed, topicScores (the averages),
\* gaps and strengths, every score in tenths.  The recommendation of a gap,
\* typeAnalysis and prioritizedLearningPath are left out; overallGapScore is
\* calculateOverallGapScore of the gaps.  getAnalysis assigns to no field of
\* the detector.
getAnalysis(d) ==
    LET topicAverages == AveragesOf(d.topicScores)
        baselineOf(i) == 10 * getBaselineForTopic(d, topicAverages[i][1])
        below == SelectSeq([i \in 1..Len(topicAverages) |-> i],
                           LAMBDA i : baselineOf(i) - topicAverages[i][2] > 0)
        above == SelectSeq([i \in 1..Len(topicAverages) |-> i],
                           LAMBDA i : topicAverages[i][2] - baselineOf(i) >= 10)
        gaps == [k \in 1..Len(below) |->
                    <<baselineOf(below[k]) - topicAverages[below[k]][2],
                      [ topic          |-> topicAverages[below[k]][1],
                        currentScore   |-> topicAverages[below[k]][2],
                        expectedScore  |-> baselineOf(below[k]),
                        deficit        |-> baselineOf(below[k]) - topicAverages[below[k]][2],
                        severity       |->
                            severityOf(baselineOf(below[k]) - topicAverages[below[k]][2]),
                        questionsAsked |-> Len(d.topicScores[below[k]][2]) ]>>]
        strengths == [k \in 1..Len(above) |->
                    <<topicAverages[above[k]][2] - baselineOf(above[k]),
                      [ topic         |-> topicAverages[above[k]][1],
                        currentScore  |-> topicAverages[above[k]][2],
                        expectedScore |-> baselineOf(above[k]),
                        surplus       |-> topicAverages[above[k]][2] - baselineOf(above[k]) ]>>]
    IN  [ roleLevel         |-> d.roleLevel,
          questionsAnalyzed |-> d.questionsAnalyzed,
          topicScores       |-> topicAverages,
          gaps              |-> [k \in 1..Len(gaps) |-> SortDesc(gaps)[k][2]],
          strengths         |-> [k \in 1..Len(strengths) |-> SortDesc(strengths)[k][2]] ]

\* The value of (totalDeficit / maxPossibleDeficit) * 100 in double
\* precision.  At these <<sum of the deficits in tenths, number of gaps>>
\* the exact value is 99.5 and the double value is 99.49999999999999, so
\* Math.round gives 99; at every other list of up to 5 deficits from
\* GapDeficits the double value rounds as the exact value does.
GapScoreTiesDown == { <<199, 2>>, <<398, 4>> }

\* mutant: without Math.min(100, ...)
calculateOverallGapScore_Unclamped(gaps) ==
    IF gaps = <<>> THEN 0
    ELSE RoundDiv(SumSeq([i \in 1..Len(gaps) |-> gaps[i].deficit]), Len(gaps))
             - (IF <<SumSeq([i \in 1..Len(gaps) |-> gaps[i].deficit]), Len(gaps)>>
                       \in GapScoreTiesDown THEN 1 ELSE 0)

\* _calculateOverallGapScore(gaps), the deficits in tenths:
\* Math.min(100, Math.round((totalDeficit / (gaps.length * 10)) * 100))
calculateOverallGapScore(gaps) ==
    IF gaps = <<>> THEN 0
    ELSE Min(100,
             RoundDiv(SumSeq([i \in 1..Len(gaps) |-> gaps[i].deficit]), Len(gaps))
             - (IF <<SumSeq([i \in 1..Len(gaps) |-> gaps[i].deficit]), Len(gaps)>>
                       \in GapScoreTiesDown THEN 1 ELSE 0))

\* SkillGapDetector.serialize()
serializeDetector(d) ==
    [ roleLevel          |-> d.roleLevel,
      topicScores        |-> d.topicScores,
      questionTypeScores |-> d.questionTypeScores,
      questionsAnalyzed  |-> d.questionsAnalyzed ]

----------------------------------------------------------------------------
(* A stand-alone AdaptiveDifficultyManager under arbitrary recordScore calls *)

Scores == 0..10
WindowSizes == {2, 3}

\* the variables of the other specifications, at rest
IdleEval == evalArgs = Null /\ evalResult = Null
IdleAdaptive == mgr = AdaptiveDifficultyManager(0, 0)
IdleAntiCheat == monitor = AntiCheatMonitor /\ analysis = Null
IdleClient == client = Null
IdleModules ==
    /\ detector = Null
    /\ report = Null
    /\ gapArgs = Null
    /\ gapScore = Null
    /\ lastCall = Null
IdleServer ==
    /\ sessionData = EmptyMap
    /\ conversationHistory = EmptyMap
    /\ inFlight = <<>>
    /\ arrivals = 0
    /\ sessionsFile = EmptyMap
    /\ candidatesFile = EmptyMap
    /\ sent = Null
    /\ pendingResumes = EmptyMap

InitAdaptive ==
    /\ clock = 1
    /\ IdleClient
    /\ IdleModules
    /\ IdleEval
    /\ IdleAntiCheat
    /\ IdleServer
    /\ \E startLevel \in 1..3, windowSize \in WindowSizes :
          mgr = AdaptiveDifficultyManager(startLevel, windowSize)

RecordScore(score) ==
    /\ Len(mgr.scoreHistory) < MaxAnswers
    /\ mgr' = recordScore(mgr, score, Now)
    /\ UNCHANGED <<clientVars, clock, evalVars, moduleVars, antiCheatVars, serverVars>>

NextAdaptive == \E score \in Scores : RecordScore(score)

SpecAdaptive == InitAdaptive /\ [][NextAdaptive]_vars

Abs(x) == IF x < 0 THEN -x ELSE x

\* C1: under every sequence of recordScore calls with scores in 0..10, from a
\* start level in {1,2,3}, the current level stays in {1,2,3} and one call
\* changes it by at most 1.
C1_LevelInRangeStepOne ==
    /\ mgr.currentLevel \in 1..3
    /\ [][ /\ mgr'.currentLevel \in 1..3
           /\ Abs(mgr'.currentLevel - mgr.currentLevel) <= 1 ]_vars

\* a manager that has moved up, down and up to Hard again
C1_Witness ==
    /\ mgr.currentLevel = 3
    /\ \E i, j \in 1..Len(mgr.levelHistory) :
          i < j /\ mgr.levelHistory[i] = 3 /\ mgr.levelHistory[j] = 2

\* the rule of the specification: the level after a call that leaves n scores
\* recorded, the last min(windowSize, n) of them adding up to total
C2_Rule(level, total, k, n) ==
    IF n < 2 THEN level
    ELSE CASE level = 1 -> IF total >= 7 * k THEN 2 ELSE 1
           [] level = 2 -> IF total >= 8 * k THEN 3
                           ELSE IF total <= 4 * k THEN 1 ELSE 2
           [] level = 3 -> IF total <= 5 * k THEN 2 ELSE 3

RECURSIVE C2_SumLast(_, _)
\* the sum of the last k elements of s
C2_SumLast(s, k) ==
    IF k = 0 THEN 0 ELSE s[Len(s)] + C2_SumLast(SubSeq(s, 1, Len(s) - 1), k - 1)

\* C2: recordScore(s) appends s and moves the level by the rule above, where
\* the average is taken over the last min(windowSize, n) recorded scores.
C2_RecordScoreRule ==
    [][ LET n == Len(mgr'.scoreHistory)
            k == IF mgr.windowSize < n THEN mgr.windowSize ELSE n
        IN  /\ n = Len(mgr.scoreHistory) + 1
            /\ SubSeq(mgr'.scoreHistory, 1, n - 1) = mgr.scoreHistory
            /\ mgr'.scoreHistory[n] \in Scores
            /\ mgr'.currentLevel =
                  C2_Rule(mgr.currentLevel, C2_SumLast(mgr'.scoreHistory, k), k, n)
      ]_vars

\* window 3 from level 1: after 8, 8 the level is 2, having been 1 after the
\* first call
C2_Witness ==
    /\ mgr.windowSize = 3
    /\ mgr.scoreHistory = <<8, 8>>
    /\ mgr.levelHistory = <<1, 1, 2>>

\* C3 as stated: a manager that started at level 1 with window 3 and has
\* recorded three scores of 9 reports the level history 1, 1, 2
C3_TrajectoryAsStated ==
    (mgr.windowSize = 3 /\ mgr.levelHistory[1] = 1 /\ mgr.scoreHistory = <<9, 9, 9>>)
        => getState(mgr).levelHistory = <<1, 1, 2>>

\* C3: a manager that started at level 1 with window 3 and has recorded
\* scores of 9 only reports, after the first, second and third score, the
\* level histories 1,1 and 1,1,2 and 1,1,2,3: the starting level, no change
\* at the first score, level 2 at the second and level 3 at the third
C3_Trajectory ==
    (mgr.windowSize = 3 /\ mgr.levelHistory[1] = 1 /\ Len(mgr.scoreHistory) <= 3
        /\ \A i \in DOMAIN mgr.scoreHistory : mgr.scoreHistory[i] = 9)
        => getState(mgr).levelHistory = SubSeq(<<1, 1, 2, 3>>, 1, Len(mgr.scoreHistory) + 1)

\* three scores of 9 recorded by a manager that started at level 1, window 3
C3_Witness ==
    mgr.windowSize = 3 /\ mgr.levelHistory[1] = 1 /\ mgr.scoreHistory = <<9, 9, 9>>

\* C4 as stated: with window 3, a level change is never followed on the
\* very next recordScore call by a change in the opposite direction.
C4_NoImmediateReversal ==
    mgr.windowSize = 3 =>
        \A i \in 1..(Len(mgr.adaptationLog) - 1) :
            LET a == mgr.adaptationLog[i]
                b == mgr.adaptationLog[i + 1]
            IN  (a.newLevel - a.previousLevel) * (b.newLevel - b.previousLevel) >= 0

\* C4: with window 3, a level change is followed on the very next
\* recordScore call by a change in the opposite direction only if the
\* rolling average moved by at least 3 points between the two calls.
C4_ReversalNeedsSwing ==
    mgr.windowSize = 3 =>
        \A i \in 1..(Len(mgr.adaptationLog) - 1) :
            LET a == mgr.adaptationLog[i]
                b == mgr.adaptationLog[i + 1]
            IN  (a.newLevel - a.previousLevel) * (b.newLevel - b.previousLevel) < 0
                    => Abs(b.avgScore10 - a.avgScore10) >= 30

\* a manager with window 3 whose level went up and straight down again
C4_Witness ==
    /\ mgr.windowSize = 3
    /\ \E i \in 1..(Len(mgr.adaptationLog) - 1) :
          /\ mgr.adaptationLog[i].newLevel > mgr.adaptationLog[i].previousLevel
          /\ mgr.adaptationLog[i + 1].newLevel < mgr.adaptationLog[i + 1].previousLevel

----------------------------------------------------------------------------
(* evaluateAnswer as a function of its arguments *)

EmptyAnswer == Str("")

WeakAnswer == Str("I think maybe it is like a callback")

MediumAnswer ==
    Str("A closure keeps the scope of the outer function. I am sure it helps with testing. We had to use it in one project because of a callback.")

TieAnswer ==
    Str("I am sure I have seen it before in many places. We used git daily in one project because it made debugging easier for everybody in the office. The result saved us a lot of time at the end.")

StrongAnswer ==
    Str("I have built a caching algorithm for my team because testing was slow. For example, I implemented monitoring and improved deployment by 40 percent. The result was better security and documentation, and I successfully delivered the project before the deadline.")

\* values of a request body field that are no strings
NumberAnswer == [t |-> "number", v |-> "42"]
ArrayAnswer  == [t |-> "array", v |-> "I think maybe it is like a callback"]

EvalAnswers ==
    { EmptyAnswer, Str("   "), WeakAnswer, MediumAnswer, TieAnswer, StrongAnswer,
      NumberAnswer, ArrayAnswer }

EvalQuestions ==
    { "", "What is a closure in JavaScript? SCORE|7/10",
      "Tell me about a conflict in your team." }

\* the scores the endpoint passes are 0..10; the function itself takes any
AiScores == (0 - OutOfRange)..(10 + OutOfRange)

InitEval ==
    /\ clock = 1
    /\ IdleClient
    /\ IdleModules
    /\ IdleAdaptive
    /\ IdleAntiCheat
    /\ IdleServer
    /\ evalArgs \in [answer : EvalAnswers, question : EvalQuestions, aiScore : AiScores]
    /\ evalResult = Null

Evaluate ==
    /\ evalResult = Null
    /\ evalResult' = evaluateAnswer(evalArgs.answer, evalArgs.question, evalArgs.aiScore)
    /\ UNCHANGED <<clientVars, clock, adaptiveVars, moduleVars, evalArgs, antiCheatVars,
                   serverVars>>

NextEval == Evaluate

SpecEval == InitEval /\ [][NextEval]_vars

\* the four dimension scores of an evaluation, each clamped to 0..10, and
\* their weighted sum in hundredths
C5_Clamp(x) == IF x < 0 THEN 0 ELSE IF x > 10 THEN 10 ELSE x

C5_Sum100(e) ==
    35 * C5_Clamp(e.dimensions.aiJudgment.score)
    + 20 * C5_Clamp(e.dimensions.keywordCoverage.score)
    + 25 * C5_Clamp(e.dimensions.completeness.score)
    + 20 * C5_Clamp(e.dimensions.confidence.score)

Evaluated == evalResult # Null /\ ~evalResult.threw

\* C5 as stated: for every aiScore, also outside 0..10, the composite score
\* is the weighted sum of the clamped dimension scores rounded half up, and
\* lies in 0..10.
C5_CompositeIsRoundOfClamped ==
    Evaluated =>
        /\ evalResult.compositeScore \in 0..10
        /\ evalResult.compositeScore = (C5_Sum100(evalResult) + 50) \div 100

\* the weighted sum, times 100, of the dimension scores as they are
C5_RawSum100(e) ==
    35 * e.dimensions.aiJudgment.score
    + 20 * e.dimensions.keywordCoverage.score
    + 25 * e.dimensions.completeness.score
    + 20 * e.dimensions.confidence.score

\* C5: for every aiScore, also outside 0..10, the aiJudgment score is the
\* aiScore as passed and the composite score is the smaller of 10 and a
\* nearest integer to the weighted sum of the four dimension scores, none
\* of them clamped (at an exact tie either neighbour); for aiScore in 0..10
\* it is an integer in 0..10.
C5_CompositeIsNearest ==
    Evaluated =>
        /\ evalResult.dimensions.aiJudgment.score = evalArgs.aiScore
        /\ IF C5_RawSum100(evalResult) >= 1050
           THEN evalResult.compositeScore = 10
           ELSE 100 * evalResult.compositeScore - C5_RawSum100(evalResult) \in -50..50
        /\ evalArgs.aiScore \in 0..10 => evalResult.compositeScore \in 0..10

\* an evaluation whose weighted sum is a tie that was rounded down
C5_Witness ==
    /\ Evaluated
    /\ evalArgs.aiScore \in 0..10
    /\ 100 * evalResult.compositeScore = C5_Sum100(evalResult) - 50

\* C6 as stated: the empty answer with aiScore 0 gets coverage 0,
\* completeness at most 2, confidence 7 and composite score 1.
C6_EmptyAnswerFloorAsStated ==
    (Evaluated /\ evalArgs.answer = Str("") /\ evalArgs.aiScore = 0) =>
        /\ evalResult.dimensions.keywordCoverage.score = 0
        /\ evalResult.dimensions.completeness.score <= 2
        /\ evalResult.dimensions.confidence.score = 7
        /\ evalResult.compositeScore = 1

\* C6: the empty answer with aiScore 0 gets coverage 0, completeness 3,
\* confidence 7 and composite score round(0.25 * 3 + 0.20 * 7) = 2.
C6_EmptyAnswerFloor ==
    (Evaluated /\ evalArgs.answer = Str("") /\ evalArgs.aiScore = 0) =>
        /\ evalResult.dimensions.keywordCoverage.score = 0
        /\ evalResult.dimensions.completeness.score = 3
        /\ evalResult.dimensions.confidence.score = 7
        /\ evalResult.compositeScore = 2

C6_Witness ==
    Evaluated /\ evalArgs.answer = Str("") /\ evalArgs.aiScore = 0

\* an answer that is empty text or no string
C7_Malformed(answer) == ~IsString(answer) \/ answer.v = ""

\* C7: evaluateAnswer on a malformed answer throws nothing and returns the
\* default sub-scores: coverage 0, the lowest completeness, confidence 7.
C7_MalformedNeverThrows ==
    (evalResult # Null /\ C7_Malformed(evalArgs.answer)) =>
        /\ ~evalResult.threw
        /\ evalResult.dimensions.keywordCoverage.score = 0
        /\ evalResult.dimensions.completeness.score = 3
        /\ evalResult.dimensions.confidence.score = 7


----------------------------------------------------------------------------
(* A stand-alone AntiCheatMonitor under arbitrary calls of its methods *)

\* eight words, none repeated
ShortAnswer == "I think maybe it is like a callback"

\* sixteen words
BriefAnswer ==
    "We used git daily in one project because it made the work easier for the team"

\* thirty-three words, three phrases of three words repeated
RotatingAnswer ==
    "yes we can yes we can yes we can yes we can yes we can yes we can yes we can yes we can yes we can yes we can yes we can"

\* seventy-five words, two in three longer than six letters
SpikeAnswer ==
    "testing is working testing is working testing is working testing is working testing is working testing is working testing is working testing is working testing is working testing is working testing is working testing is working testing is working testing is working testing is working testing is working testing is working testing is working testing is working testing is working testing is working testing is working testing is working testing is working testing is working"

MonitorAnswers == { ShortAnswer, BriefAnswer, RotatingAnswer, SpikeAnswer }

\* calls of analyzeAnswer: an answer and a score, below 9 or from 9 on
AnalyzeCalls ==
    { <<BriefAnswer, 5>>, <<RotatingAnswer, 9>>, <<SpikeAnswer, 9>> }

\* TextMetrics of the sample answers, evaluated once
MonitorMetrics == [answer \in MonitorAnswers |-> TextMetrics(answer)]

InitAntiCheat ==
    /\ clock = 1
    /\ IdleClient
    /\ IdleModules
    /\ IdleAdaptive
    /\ IdleEval
    /\ IdleServer
    /\ monitor = AntiCheatMonitor
    /\ analysis = Null

\* a second passes
Tick ==
    /\ clock < MaxClock
    /\ clock' = clock + 1
    /\ UNCHANGED <<clientVars, adaptiveVars, evalVars, moduleVars, antiCheatVars, serverVars>>

QuestionAsked ==
    /\ monitor' = questionAsked(monitor, Now)
    /\ UNCHANGED <<clientVars, clock, adaptiveVars, evalVars, moduleVars, analysis, serverVars>>

AnalyzeAnswer(answer, score) ==
    /\ Len(monitor.responseLengths) < MaxAnalyzed
    /\ LET r == analyzeAnswerWith(monitor, MonitorMetrics[answer], score, Now)
       IN  /\ monitor' = r.monitor
           /\ analysis' = r.result
    /\ UNCHANGED <<clientVars, clock, adaptiveVars, evalVars, moduleVars, serverVars>>

\* getIntegrityReport() and serialize() assign to no field: the caller gets
\* the report, or the serialized form, of the monitor as it is
GetIntegrityReport ==
    /\ getIntegrityReport(monitor).totalFlags = Len(monitor.flags)
    /\ UNCHANGED vars

SerializeMonitor ==
    /\ DOMAIN serializeMonitor(monitor) # {}
    /\ UNCHANGED vars

NextAntiCheat ==
    \/ Tick
    \/ QuestionAsked
    \/ \E call \in AnalyzeCalls : AnalyzeAnswer(call[1], call[2])
    \/ GetIntegrityReport
    \/ SerializeMonitor

SpecAntiCheat == InitAntiCheat /\ [][NextAntiCheat]_vars

\* a step of analyzeAnswer: one more word count is recorded
AnalyzeStep == Len(monitor'.responseLengths) = Len(monitor.responseLengths) + 1

\* C8 as stated: every analyzeAnswer sets the suspicion score to
\* 0.7 * previous + 0.3 * points rounded half up and clamped to 0..100,
\* points being the sum of the points of the flags raised for the answer;
\* the score is an integer in 0..100 throughout.
C8_RoundHalfUp ==
    /\ monitor.overallSuspicionScore \in 0..100
    /\ [][ AnalyzeStep =>
             /\ analysis'.answerSuspicionPoints = SumPoints(analysis'.flags)
             /\ monitor'.overallSuspicionScore =
                   Min(100, Max(0, (7 * monitor.overallSuspicionScore
                                    + 3 * analysis'.answerSuspicionPoints + 5) \div 10))
             /\ monitor'.overallSuspicionScore \in 0..100 ]_vars

\* C8: every analyzeAnswer sets the suspicion score to a nearest integer
\* to 0.7 * previous + 0.3 * points (at an exact tie either neighbour),
\* points being the sum of the points of the flags raised for the answer;
\* the score is an integer in 0..100 throughout.
C8_Nearest ==
    /\ monitor.overallSuspicionScore \in 0..100
    /\ [][ AnalyzeStep =>
             /\ analysis'.answerSuspicionPoints = SumPoints(analysis'.flags)
             /\ 10 * monitor'.overallSuspicionScore
                   - (7 * monitor.overallSuspicionScore
                      + 3 * analysis'.answerSuspicionPoints) \in -5..5
             /\ monitor'.overallSuspicionScore \in 0..100 ]_vars

\* four answers analyzed, the first three with flags worth 25, 65 and 90
\* points (scores 8, 25, 45), the fourth with none: 0.7 * 45 is the tie
\* 31.5 and the score is 31
C8_Witness ==
    /\ Len(monitor.responseLengths) = 4
    /\ analysis.flags = <<>>
    /\ [i \in DOMAIN monitor.flags |-> monitor.flags[i].points]
          = <<25, 15, 25, 20, 5, 15, 25, 15, 10, 20, 5>>
    /\ monitor.overallSuspicionScore = 31

C9_Step ==
    /\ (~AnalyzeStep) =>
          (/\ monitor'.overallSuspicionScore = monitor.overallSuspicionScore
           /\ monitor'.flags = monitor.flags)
    /\ (AnalyzeStep /\ analysis'.flags = <<>>) =>
          (/\ monitor'.overallSuspicionScore <= monitor.overallSuspicionScore
           /\ monitor'.flags = monitor.flags)

\* C9: a step that is no analyzeAnswer (questionAsked, time passing,
\* getIntegrityReport, serialize) leaves the suspicion score and the flag
\* list as they are, the report and the serialized form show them as they
\* are, and an analyzeAnswer that raises no flag never increases the score.
C9_FrozenBetweenAnswers ==
    /\ [](/\ getIntegrityReport(monitor).overallSuspicionScore
                = monitor.overallSuspicionScore
           /\ getIntegrityReport(monitor).flags = monitor.flags
           /\ serializeMonitor(monitor).overallSuspicionScore
                = monitor.overallSuspicionScore
           /\ serializeMonitor(monitor).flags = monitor.flags)
    /\ [][C9_Step]_vars

\* a question stamped after an answer without flags was analyzed by a
\* monitor that holds flags of earlier answers and a positive score
C9_Witness ==
    /\ analysis # Null
    /\ analysis.flags = <<>>
    /\ monitor.flags # <<>>
    /\ monitor.overallSuspicionScore > 0
    /\ ~monitor.lastQuestionTime.isNull
    /\ monitor.lastQuestionTime.at = Now
    /\ clock > 1

----------------------------------------------------------------------------
(* storage.js : sessions.json and candidates.json.  Each file is the object *)
(* it holds, a map from an id to a record.  Times are Date.now() where the  *)
(* code writes an ISO string; a score with one decimal is kept times ten.   *)

\* The values Math.round(num / den) can take when num / den is computed in
\* double precision from operands with one decimal: the nearest integer,
\* and at an exact tie either neighbour, since the double quotient of a tie
\* lies on either side of it, depending on the operands.
NearestTo(num, den) ==
    IF (2 * num) % (2 * den) = den
    THEN {num \div den, num \div den + 1}
    ELSE {RoundDiv(num, den)}

\* saveSession(sessionId, sessionData): the file after the write
saveSession(sessions, sessionId, data, now) ==
    MapSet(sessions, sessionId,
           [k \in {"id", "savedAt"} \cup DOMAIN data |->
               IF k \in DOMAIN data THEN data[k]
               ELSE IF k = "id" THEN sessionId ELSE now])

\* getSession(sessionId): sessions[sessionId] || null
getSession(sessions, sessionId) ==
    IF Has(sessions, sessionId) THEN sessions[sessionId] ELSE Null

\* the profile getCandidate(candidateId) creates
NewCandidate(candidateId, now) ==
    [ id              |-> candidateId,
      name            |-> "Anonymous",
      createdAt       |-> now,
      totalInterviews |-> 0,
      averageScore    |-> 0,
      bestScore       |-> 0,
      passRate        |-> 0,
      totalPassed     |-> 0,
      skillProfile    |-> <<>>,
      lastInterviewAt |-> Null ]

\* skillProfile[topic] = { scores, average } after scores.push(score)
ProfileEntry(profile, topic, score, average) ==
    IF \E i \in 1..Len(profile) : profile[i][1] = topic
    THEN [i \in 1..Len(profile) |->
             IF profile[i][1] = topic
             THEN <<topic, [scores  |-> Append(profile[i][2].scores, score),
                            average |-> average]>>
             ELSE profile[i]]
    ELSE Append(profile, <<topic, [scores |-> <<score>>, average |-> average]>>)

\* the scores of a topic in a skill profile
ProfileScores(profile, topic) ==
    IF \E i \in 1..Len(profile) : profile[i][1] = topic
    THEN profile[CHOOSE i \in 1..Len(profile) : profile[i][1] = topic][2].scores
    ELSE <<>>

RECURSIVE MergeTopicScores(_, _)
\* for (const [topic, score] of Object.entries(skillGaps.topicScores)): the
\* skill profiles the loop can leave
MergeTopicScores(profile, topicScores) ==
    IF topicScores = <<>> THEN {profile}
    ELSE LET topic  == Head(topicScores)[1]
             score  == Head(topicScores)[2]
             scores == Append(ProfileScores(profile, topic), score)
         IN  UNION { MergeTopicScores(ProfileEntry(profile, topic, score, average),
                                      Tail(topicScores)) :
                     average \in NearestTo(SumSeq(scores), Len(scores)) }

\* updateCandidateProfile(candidateId, sessionSummary): the contents the
\* file can have after the write
updateCandidateProfile(candidates, candidateId, sessionSummary, now) ==
    LET candidate == IF Has(candidates, candidateId) THEN candidates[candidateId]
                     ELSE NewCandidate(candidateId, now)
        totalInterviews == candidate.totalInterviews + 1
        totalPassed == candidate.totalPassed + (IF sessionSummary.passed THEN 1 ELSE 0)
    IN  { MapSet(candidates, candidateId,
                 [candidate EXCEPT
                     !.totalInterviews = totalInterviews,
                     !.lastInterviewAt = [isNull |-> FALSE, at |-> now],
                     !.bestScore       = Max(@, sessionSummary.finalScore),
                     !.totalPassed     = totalPassed,
                     !.passRate        = RoundDiv(100 * totalPassed, totalInterviews),
                     !.averageScore    = averageScore,
                     !.skillProfile    = skillProfile]) :
          averageScore \in NearestTo(candidate.averageScore * (totalInterviews - 1)
                                        + sessionSummary.finalScore, totalInterviews),
          skillProfile \in MergeTopicScores(candidate.skillProfile,
                                            sessionSummary.skillGaps.topicScores) }

----------------------------------------------------------------------------
(* resume.js : parseResume and generateResumeBasedPrompt, as far as the     *)
(* server reads their result: the skills found, the experience level, the  *)
(* difficulty override and the addition to the system prompt                *)

SKILL_CATEGORIES ==
    <<
       << "Programming Languages",
          <<
          "javascript", "typescript", "python", "java", "c++", "c#", "go",
          "golang", "rust", "ruby", "php", "swift", "kotlin", "scala", "r",
          "matlab", "perl", "dart", "elixir", "haskell", "lua",
          "objective-c", "assembly" >> >>,
       << "Frontend Frameworks",
          <<
          "react", "react.js", "reactjs", "angular", "vue", "vue.js",
          "vuejs", "svelte", "next.js", "nextjs", "nuxt", "gatsby", "ember",
          "backbone", "jquery", "bootstrap", "tailwind", "material-ui",
          "ant design" >> >>,
       << "Backend Frameworks",
          <<
          "node.js", "nodejs", "express", "express.js", "django", "flask",
          "fastapi", "spring", "spring boot", "rails", "ruby on rails",
          "laravel", "asp.net", "nestjs", "koa", "hapi", "gin", "echo",
          "fiber" >> >>,
       << "Databases",
          <<
          "mysql", "postgresql", "postgres", "mongodb", "redis",
          "elasticsearch", "dynamodb", "cassandra", "sqlite", "oracle",
          "sql server", "mariadb", "neo4j", "couchdb", "firebase",
          "supabase", "prisma", "sequelize" >> >>,
       << "Cloud & DevOps",
          <<
          "aws", "azure", "gcp", "google cloud", "docker", "kubernetes",
          "k8s", "terraform", "ansible", "jenkins", "github actions",
          "gitlab ci", "circleci", "travis ci", "nginx", "apache", "linux",
          "bash", "cloudflare", "vercel", "netlify", "heroku", "digitalocean" >> >>,
       << "Mobile",
          <<
          "react native", "flutter", "swift", "kotlin", "ios", "android",
          "xamarin", "cordova", "ionic", "expo" >> >>,
       << "Data & ML",
          <<
          "machine learning", "deep learning", "tensorflow", "pytorch",
          "keras", "scikit-learn", "pandas", "numpy", "data science", "nlp",
          "computer vision", "neural network", "hadoop", "spark", "kafka",
          "airflow", "tableau", "power bi" >> >>,
       << "Tools & Practices",
          <<
          "git", "github", "gitlab", "bitbucket", "jira", "agile", "scrum",
          "kanban", "ci/cd", "tdd", "bdd", "pair programming", "code review",
          "microservices", "rest", "graphql", "grpc", "websocket", "oauth",
          "jwt", "api design" >> >>
    >>

EXPERIENCE_INDICATORS ==
    [ senior |-> << "senior", "lead", "principal", "staff", "architect", "manager",
                    "director", "head of", "vp of", "chief", "cto", "10+ years",
                    "8+ years", "7+ years", "mentored", "led a team",
                    "managed a team" >>,
      mid    |-> << "mid-level", "mid level", "3+ years", "4+ years", "5+ years",
                    "6+ years", "contributed to", "collaborated",
                    "developed multiple", "full-stack" >>,
      junior |-> << "junior", "intern", "entry-level", "entry level",
                    "fresh graduate", "bootcamp", "self-taught", "1 year",
                    "2 years", "beginner", "student", "graduate" >> ]

\* \b of a regular expression before position i of s
WordBoundary(s, i) ==
    (i - 1 >= 1 /\ IsWordChar(At(s, i - 1))) # (i <= Len(s) /\ IsWordChar(At(s, i)))

\* new RegExp(`\\b${skill}\\b`, 'i').test(resumeText), the characters of the
\* skill escaped: s is resumeText in lower case, as the skills are
testSkill(s, skill) ==
    \E i \in 1..(Len(s) - Len(skill) + 1) :
        /\ SubSeq(s, i, i + Len(skill) - 1) = skill
        /\ WordBoundary(s, i)
        /\ WordBoundary(s, i + Len(skill))

\* the elements of a list that satisfy a test, in the order of the list
RECURSIVE FoundSkills(_, _)
FoundSkills(lowerText, skills) ==
    IF skills = <<>> THEN <<>>
    ELSE (IF testSkill(lowerText, Head(skills)) THEN <<Head(skills)>> ELSE <<>>)
         \o FoundSkills(lowerText, Tail(skills))

RECURSIVE AllSkills(_, _)
\* allSkills: the skills found, category after category
AllSkills(lowerText, categories) ==
    IF categories = <<>> THEN <<>>
    ELSE FoundSkills(lowerText, Head(categories)[2])
         \o AllSkills(lowerText, Tail(categories))

\* how many indicators of a level the text includes
IndicatorMatches(lowerText, level) ==
    Cardinality({ i \in 1..Len(EXPERIENCE_INDICATORS[level]) :
                    includes(lowerText, EXPERIENCE_INDICATORS[level][i]) })

\* estimateExperience(lowerText)
estimateExperience(lowerText) ==
    LET seniorMatches == IndicatorMatches(lowerText, "senior")
        midMatches    == IndicatorMatches(lowerText, "mid")
        juniorMatches == IndicatorMatches(lowerText, "junior")
    IN  IF seniorMatches >= 2 THEN "senior"
        ELSE IF midMatches >= 2 THEN "mid"
        ELSE IF juniorMatches >= 2 THEN "junior"
        ELSE IF seniorMatches > midMatches /\ seniorMatches > juniorMatches THEN "senior"
        ELSE IF midMatches > juniorMatches THEN "mid"
        ELSE IF juniorMatches > 0 THEN "junior"
        ELSE "mid"

\* parseResume(resumeText) of a string that is not empty: the skills found
\* and the experience level
parseResume(resumeText) ==
    LET allSkills == AllSkills(toLowerCase(resumeText), SKILL_CATEGORIES)
    IN  [ skills          |-> [ all   |-> allSkills,
                                count |-> Len(allSkills) ],
          experienceLevel |-> estimateExperience(toLowerCase(resumeText)) ]

\* generateResumeBasedPrompt(parsedResume).  The addition to the system
\* prompt is its heading and the line of the experience level; the lines of
\* the skills, areas and achievements and the instructions are left out.
\* experienceLevel is undefined in the result for a resume without skills.
generateResumeBasedPrompt(parsedResume) ==
    IF parsedResume.skills.count = 0
    THEN [ systemPromptAddition |-> "",
           difficultyOverride   |-> Null,
           experienceLevel      |-> Null ]
    ELSE [ systemPromptAddition |->
               "\nCANDIDATE RESUME CONTEXT:\n- Experience level: "
                   \o parsedResume.experienceLevel \o "\n",
           difficultyOverride   |->
               [ isNull |-> FALSE,
                 level  |-> IF parsedResume.experienceLevel \in {"senior", "mid"}
                            THEN 2 ELSE 1 ],
           experienceLevel      |->
               [ isNull |-> FALSE, level |-> parsedResume.experienceLevel ] ]

----------------------------------------------------------------------------
(* server.js : POST /api/chat.  The handler runs from the request to        *)
(* await generateResponse(...) in one step and from the reply, or the       *)
(* failure, of the language model to the HTTP response in another.  The     *)
(* requests carry a string as message (or none), a resume text or none,    *)
(* and no candidateId or domain.                                            *)

\* the text of s from position i on, at most n characters
Sub(s, i, n) == SubSeq(s, i, Min(Len(s), i + n - 1))

\* parseInt(digits, 10)
DigitValue(ch) == CHOOSE d \in 0..9 : At("0123456789", d + 1) = ch

parseInt(digits) ==
    IF Len(digits) = 1 THEN DigitValue(digits)
    ELSE 10 * DigitValue(At(digits, 1)) + DigitValue(At(digits, 2))

\* /SCORE\|(\d{1,2})\/10/ at position i: the number of digits matched, 0
\* when the expression does not match there
ScoreDigitsAt(s, i) ==
    IF Sub(s, i, 6) # "SCORE|" THEN 0
    ELSE IF Sub(s, i + 6, 1) \in Digits /\ Sub(s, i + 7, 1) \in Digits
            /\ Sub(s, i + 8, 3) = "/10"
         THEN 2
    ELSE IF Sub(s, i + 6, 1) \in Digits /\ Sub(s, i + 7, 3) = "/10"
         THEN 1
    ELSE 0

\* response.match(/SCORE\|(\d{1,2})\/10/): the first match, Null for none
scoreMatch(response) ==
    LET starts == {i \in 1..Len(response) : ScoreDigitsAt(response, i) > 0}
    IN  IF starts = {} THEN Null
        ELSE LET i == CHOOSE i \in starts : \A j \in starts : i <= j
                 n == ScoreDigitsAt(response, i)
             IN  [ isNull |-> FALSE,
                   index  |-> i,
                   length |-> 6 + n + 3,
                   digits |-> Sub(response, i + 6, n) ]

\* s without the n characters from position i on
Without(s, i, n) == SubSeq(s, 1, i - 1) \o SubSeq(s, i + n, Len(s))

RECURSIVE RunLength(_, _, _)
\* the length of the longest run of characters of a class in s from
\* position i on
RunLength(s, i, class) ==
    IF i <= Len(s) /\ At(s, i) \in class THEN 1 + RunLength(s, i + 1, class) ELSE 0

WordChars ==
    Digits \cup {"_"} \cup {At(LowerCaseLetters, i) : i \in 1..26}
           \cup {At(UpperCaseLetters, i) : i \in 1..26}

Letters ==
    {At(LowerCaseLetters, i) : i \in 1..26} \cup {At(UpperCaseLetters, i) : i \in 1..26}

\* response.match(/INTERVIEW_COMPLETE\|(\d+\/10)\|(\w+)/) is not null
completionMatches(response) ==
    \E i \in 1..Len(response) :
        /\ Sub(response, i, 19) = "INTERVIEW_COMPLETE|"
        /\ LET d == RunLength(response, i + 19, Digits)
           IN  /\ d >= 1
               /\ Sub(response, i + 19 + d, 4) = "/10|"
               /\ RunLength(response, i + 19 + d + 4, WordChars) >= 1

\* /INTERVIEW_COMPLETE\|[\d./]+\|[a-z]+/i at position i: the length of the
\* match, 0 when the expression does not match there
CompletionLengthAt(s, i) ==
    IF toLowerCase(Sub(s, i, 19)) # "interview_complete|" THEN 0
    ELSE LET d == RunLength(s, i + 19, Digits \cup {".", "/"})
             w == RunLength(s, i + 19 + d + 1, Letters)
         IN  IF d >= 1 /\ Sub(s, i + 19 + d, 1) = "|" /\ w >= 1
             THEN 19 + d + 1 + w ELSE 0

\* s.replace(/INTERVIEW_COMPLETE\|[\d./]+\|[a-z]+/i, '')
withoutCompletionMarker(s) ==
    LET starts == {i \in 1..Len(s) : CompletionLengthAt(s, i) > 0}
    IN  IF starts = {} THEN s
        ELSE LET i == CHOOSE i \in starts : \A j \in starts : i <= j
             IN  Without(s, i, CompletionLengthAt(s, i))

\* BASE_SYSTEM_PROMPT; its first line stands for the whole text
BASE_SYSTEM_PROMPT == "You are a professional technical interview conductor."

\* the session the handler creates for a session id it has not seen
NewSession(candidateId, now) ==
    [ questionCount      |-> 0,
      totalScore         |-> 0,
      scoredCount        |-> 0,
      startTime          |-> now,
      completed          |-> FALSE,
      finalScore         |-> Null,
      candidateId        |-> candidateId,
      adaptiveManager    |-> AdaptiveDifficultyManager(1, 0),
      antiCheat          |-> AntiCheatMonitor,
      skillGap           |-> SkillGapDetector("mid"),
      answerEvaluations  |-> <<>>,
      questionAnswerPairs |-> <<>>,
      resumePrompt       |-> Null,
      lastQuestionConfig |-> Null ]

\* buildSystemPrompt(session): the session after the call and the prompt.
\* session.domainPrompt is undefined and adds nothing to the prompt.
buildSystemPrompt(session) ==
    LET next   == getNextQuestionConfig(session.adaptiveManager)
        config == next.config
    IN  [ session |-> [session EXCEPT !.adaptiveManager = next.manager,
                                      !.lastQuestionConfig = config],
          prompt  |-> BASE_SYSTEM_PROMPT
                      \o "\n\nDIFFICULTY INSTRUCTION: " \o config.prompt
                      \o "\nCurrent difficulty level: " \o config.difficultyName
                      \o " (" \o At("123", config.difficulty) \o "/3)"
                      \o (IF config.isFollowUp
                          THEN "\nThis should be a FOLLOW-UP question based on the candidate's previous answer."
                          ELSE "")
                      \o (IF session.resumePrompt # Null /\ session.resumePrompt.text # ""
                          THEN "\n\n" \o session.resumePrompt.text
                          ELSE "") ]

\* getLastQuestion(history)
getLastQuestion(history) ==
    LET found == {i \in 1..(Len(history) - 1) : history[i].role = "assistant"}
    IN  IF found = {} THEN ""
        ELSE history[CHOOSE i \in found : \A j \in found : j <= i].content

\* message is none of the control messages
IsRealAnswer(message) == message \notin {"__start__", "__end__", "__timeout__"}

\* the promptMessage handed to generateResponse
promptMessageOf(message) ==
    IF message = "__start__" THEN "Start the interview now."
    ELSE IF message = "__end__"
         THEN "End the interview now and provide final rating in the required format."
    ELSE IF message = "__timeout__"
         THEN "The candidate did not answer. Ask a new question now."
    ELSE message

\* the resume texts of candidates: a senior one and a junior one with skills,
\* and one without a skill of the dictionaries
SeniorResume == "Senior architect who led a team building React and Python services"
JuniorResume == "Junior developer and bootcamp graduate with JavaScript and Git"
PlainResume == "I enjoy hiking and baking"

ResumeTexts == { SeniorResume, JuniorResume, PlainResume }

\* generateResumeBasedPrompt(parseResume(resumeText)) of the texts, each
\* evaluated once
ResumePrompts == [r \in ResumeTexts |-> generateResumeBasedPrompt(parseResume(r))]

\* the resume text of a request, Null for a request without one
Resume(text) == [isNull |-> FALSE, text |-> text]

\* the session after the prompt data of a resume were applied to it
\* (session.resumeParsed, which the server never reads, is left out)
applyResume(session, promptData) ==
    [session EXCEPT
        !.resumePrompt = [isNull |-> FALSE, text |-> promptData.systemPromptAddition],
        !.adaptiveManager.currentLevel =
            IF promptData.difficultyOverride # Null
            THEN promptData.difficultyOverride.level ELSE @,
        !.skillGap =
            IF promptData.experienceLevel # Null
            THEN SkillGapDetector(promptData.experienceLevel.level) ELSE @]

\* resumeText || pendingResumes.get(sessionId)
effectiveResumeText(sessionId, resumeText) ==
    IF resumeText # Null THEN resumeText
    ELSE IF Has(pendingResumes, sessionId) THEN Resume(pendingResumes[sessionId])
    ELSE Null

\* map without key
MapDelete(map, key) == [k \in DOMAIN map \ {key} |-> map[k]]

\* mutant: the message of the candidate is pushed to the history before the
\* call of generateResponse
chatPrepare_PushesUser(sessionId, message, resume, now) ==
    LET session0 == IF Has(sessionData, sessionId) THEN sessionData[sessionId]
                    ELSE NewSession("anonymous", now)
        history0 == IF Has(conversationHistory, sessionId)
                    THEN conversationHistory[sessionId]
                    ELSE << [role |-> "system", content |-> ""] >>
        rebuilt  == buildSystemPrompt(session0)
    IN  [session |-> rebuilt.session,
         history |-> Append([history0 EXCEPT
                                ![1] = [role |-> "system", content |-> rebuilt.prompt]],
                            [role |-> "user", content |-> message])]

\* The handler from the session lookup to the call of generateResponse: the
\* session and the history of sessionId as it leaves them
chatPrepare(sessionId, message, resume, now) ==
    LET initial  == IF Has(sessionData, sessionId) THEN sessionData[sessionId]
                    ELSE NewSession("anonymous", now)
        session0 == IF resume # Null /\ message = "__start__"
                    THEN applyResume(initial, ResumePrompts[resume.text])
                    ELSE initial
        created  == IF Has(conversationHistory, sessionId)
                    THEN [session |-> session0,
                          history |-> conversationHistory[sessionId]]
                    ELSE LET built == buildSystemPrompt(session0)
                         IN  [session |-> built.session,
                              history |-> << [role |-> "system", content |-> built.prompt] >>]
        rebuilt  == buildSystemPrompt(created.session)
        history  == [created.history EXCEPT
                        ![1] = [role |-> "system", content |-> rebuilt.prompt]]
        session  == IF message # "__start__"
                    THEN [rebuilt.session EXCEPT !.antiCheat = questionAsked(@, now)]
                    ELSE rebuilt.session
    IN  [session |-> session, history |-> history]

----------------------------------------------------------------------------
(* The server under requests to POST /api/chat and replies of the language *)
(* model                                                                    *)

\* most /api/chat requests with a message the server receives
MaxArrivals == 2

\* the last second of the clock of the server
MaxServerClock == 2

SessionIds == {"default"}

\* the answers of a candidate
ChatAnswers == { BriefAnswer }

\* the answers the tables below hold the analyses of
KnownAnswers == ChatAnswers \cup { RotatingAnswer }

\* the message of a request; "" for a request without one
ChatMessages == {"__start__", "__end__", "__timeout__"} \cup ChatAnswers

ReplyHigh == "Good answer. What is a closure in JavaScript? SCORE|9/10"
ReplyLow == "Can you explain how you debug a production issue? SCORE|3/10"
ReplyPlain == "Please tell me about your professional background."
ReplyComplete == "Thank you for your time. SCORE|7/10 INTERVIEW_COMPLETE|7/10|true"

\* what generateResponse returns
LlmReplies == { ReplyHigh, ReplyLow, ReplyPlain, ReplyComplete }

\* a reply whose score token holds no number, and one whose number is
\* above 10
ReplyGarbled == "Interesting. How do you test an API? SCORE|ten/10"
ReplyOver == "Excellent. How do you design a REST API? SCORE|15/10"

\* the replies the tables below hold the markers of
KnownReplies == LlmReplies \cup { ReplyGarbled, ReplyOver }

\* what getLastQuestion returns
ChatQuestions == KnownReplies \cup {""}

\* the analyses evaluateAnswer makes of an answer to a question, the
\* metrics analyzeAnswer reads of an answer, the topics _detectTopics finds
\* in a question and the markers the handler finds in a reply: each
\* evaluated once
TextAnalyses ==
    [ a \in KnownAnswers, q \in ChatQuestions |->
        [ keywordAnalysis      |-> evaluateKeywordCoverage(Str(a), q),
          completenessAnalysis |-> evaluateCompleteness(a),
          confidenceAnalysis   |-> evaluateConfidence(a) ] ]

ChatMetrics == [a \in KnownAnswers |-> TextMetrics(a)]

QuestionTopics == [q \in ChatQuestions |-> detectTopics(q)]

ReplyMarkers ==
    [ r \in KnownReplies |->
        LET match   == scoreMatch(r)
            cleaned == IF match = Null THEN r
                       ELSE trim(Without(r, match.index, match.length))
        IN  [ scoreMatch      |-> match,
              cleanedResponse |-> cleaned,
              complete        |-> includes(r, "INTERVIEW_COMPLETE|") /\ completionMatches(r),
              withoutCompletion |-> trim(withoutCompletionMarker(cleaned)) ] ]

InitServer ==
    /\ clock = 1
    /\ IdleClient
    /\ IdleModules
    /\ IdleAdaptive
    /\ IdleEval
    /\ IdleAntiCheat
    /\ IdleServer

\* a request without a message: 400
ChatReject ==
    /\ sent' = [ status |-> 400, error |-> "Message is required" ]
    /\ UNCHANGED <<clientVars, clock, adaptiveVars, evalVars, moduleVars, antiCheatVars, sessionData,
                   conversationHistory, inFlight, arrivals, sessionsFile,
                   candidatesFile, pendingResumes>>

\* a request with a message and the resume text resumeText (Null for
\* none), up to await generateResponse(...)
ChatArrives(sessionId, message, resumeText) ==
    /\ arrivals' = arrivals + 1
    /\ LET prepared == chatPrepare(sessionId, message,
                                   effectiveResumeText(sessionId, resumeText), Now)
       IN  /\ sessionData' = MapSet(sessionData, sessionId, prepared.session)
           /\ conversationHistory' =
                  MapSet(conversationHistory, sessionId, prepared.history)
    /\ pendingResumes' =
           IF effectiveResumeText(sessionId, resumeText) # Null /\ message = "__start__"
           THEN MapDelete(pendingResumes, sessionId)
           ELSE pendingResumes
    /\ inFlight' = Append(inFlight, [ sessionId     |-> sessionId,
                                      message       |-> message,
                                      promptMessage |-> promptMessageOf(message) ])
    /\ UNCHANGED <<clientVars, clock, adaptiveVars, evalVars, moduleVars, antiCheatVars, sessionsFile,
                   candidatesFile, sent>>

\* such a request while the server has received fewer than MaxArrivals
ChatBeginWith(sessionId, message, resumeText) ==
    /\ arrivals < MaxArrivals
    /\ ChatArrives(sessionId, message, resumeText)

\* a request with a message and without a resume text
ChatBegin(sessionId, message) == ChatBeginWith(sessionId, message, Null)

\* POST /api/resume with a resume text
PostResume(sessionId, resumeText) ==
    /\ pendingResumes' = MapSet(pendingResumes, sessionId, resumeText)
    /\ sessionData' =
           IF Has(sessionData, sessionId)
           THEN [sessionData EXCEPT
                    ![sessionId] = applyResume(@, ResumePrompts[resumeText])]
           ELSE sessionData
    /\ sent' = [ status          |-> 200,
                 success         |-> TRUE,
                 experienceLevel |-> ResumePrompts[resumeText].experienceLevel ]
    /\ UNCHANGED <<clientVars, clock, adaptiveVars, evalVars, moduleVars, antiCheatVars,
                   conversationHistory, inFlight, arrivals, sessionsFile,
                   candidatesFile>>

\* generateResponse throws: 500
ChatFail(i) ==
    /\ i \in 1..Len(inFlight)
    /\ inFlight' = SubSeq(inFlight, 1, i - 1) \o SubSeq(inFlight, i + 1, Len(inFlight))
    /\ sent' = [ status |-> 500, success |-> FALSE, error |-> "Failed to process request" ]
    /\ UNCHANGED <<clientVars, clock, adaptiveVars, evalVars, moduleVars, antiCheatVars, sessionData,
                   conversationHistory, arrivals, sessionsFile, candidatesFile,
                   pendingResumes>>

\* mutant: the Adaptive Controller and the Skill-Gap Detector get the raw
\* score of the language model
chatTrack_RawScore(session, lastQuestion, message, aiScore, answerEvaluation, now) ==
    [ session |->
        [session EXCEPT
            !.answerEvaluations   = Append(@, answerEvaluation),
            !.questionAnswerPairs =
                Append(@, [ question       |-> lastQuestion,
                            answer         |-> message,
                            aiScore        |-> aiScore,
                            compositeScore |-> answerEvaluation.compositeScore,
                            timestamp      |-> now ]),
            !.adaptiveManager =
                shouldFollowUp(recordScore(@, aiScore, now), aiScore, lastQuestion,
                               message).manager,
            !.antiCheat =
                analyzeAnswerWith(@, ChatMetrics[message], aiScore, now).monitor,
            !.skillGap  =
                trackAnswerWith(@, QuestionTopics[lastQuestion], aiScore,
                                IF session.lastQuestionConfig = Null THEN "technical"
                                ELSE session.lastQuestionConfig.questionType).detector ],
      answerEvaluation |-> answerEvaluation,
      antiCheatResult  |->
          analyzeAnswerWith(session.antiCheat, ChatMetrics[message], aiScore, now).result ]

\* the evaluation modules from recordScore on, for the evaluation of the
\* answer message to lastQuestion: the session after them, the evaluation
\* and what analyzeAnswer returned
chatTrack(session, lastQuestion, message, aiScore, answerEvaluation, now) ==
    [ session |->
        [session EXCEPT
            !.answerEvaluations   = Append(@, answerEvaluation),
            !.questionAnswerPairs =
                Append(@, [ question       |-> lastQuestion,
                            answer         |-> message,
                            aiScore        |-> aiScore,
                            compositeScore |-> answerEvaluation.compositeScore,
                            timestamp      |-> now ]),
            !.adaptiveManager =
                shouldFollowUp(recordScore(@, answerEvaluation.compositeScore, now),
                               answerEvaluation.compositeScore, lastQuestion,
                               message).manager,
            !.antiCheat =
                analyzeAnswerWith(@, ChatMetrics[message], aiScore, now).monitor,
            !.skillGap  =
                trackAnswerWith(@, QuestionTopics[lastQuestion],
                                answerEvaluation.compositeScore,
                                IF session.lastQuestionConfig = Null THEN "technical"
                                ELSE session.lastQuestionConfig.questionType).detector ],
      answerEvaluation |-> answerEvaluation,
      antiCheatResult  |->
          analyzeAnswerWith(session.antiCheat, ChatMetrics[message], aiScore, now).result ]

\* the evaluation modules run on a real answer; lastQuestion is what
\* getLastQuestion returns
chatEvaluate(session, lastQuestion, message, aiScore, now) ==
    chatTrack(session, lastQuestion, message, aiScore,
              evaluateAnswerFrom(TextAnalyses[message, lastQuestion].keywordAnalysis,
                                 TextAnalyses[message, lastQuestion].completenessAnalysis,
                                 TextAnalyses[message, lastQuestion].confidenceAnalysis,
                                 aiScore),
              now)

\* mutant: the number of the token is taken as it is
aiScoreOf_Unclamped(match) ==
    IF match = Null THEN 0 ELSE parseInt(match.digits)

\* the aiScore the handler reads from a reply
aiScoreOf(match) ==
    IF match = Null THEN 0 ELSE Max(0, Min(10, parseInt(match.digits)))

\* the history after the reply to message was pushed
pushed(history, message, response) ==
    (IF IsRealAnswer(message)
     THEN Append(history, [role |-> "user", content |-> message])
     ELSE history)
    \o << [role |-> "assistant", content |-> response] >>

\* mutant: the score of the reply to a control message is counted too
counted_ScoresControl(session, message, match) ==
    [session EXCEPT
        !.questionCount = @ + 1,
        !.totalScore  = IF match # Null THEN @ + aiScoreOf(match) ELSE @,
        !.scoredCount = IF match # Null THEN @ + 1 ELSE @]

\* the session after the question count and the scores were updated
counted(session, message, match) ==
    [session EXCEPT
        !.questionCount = @ + 1,
        !.totalScore  = IF match # Null /\ IsRealAnswer(message)
                        THEN @ + aiScoreOf(match) ELSE @,
        !.scoredCount = IF match # Null /\ IsRealAnswer(message) THEN @ + 1 ELSE @]

\* the handler from the reply of generateResponse to the evaluation
\* modules: history, question count, scores and evaluation
chatRecord(session, history, message, response, now) ==
    IF IsRealAnswer(message)
    THEN [ history |-> pushed(history, message, response),
           aiScore |-> aiScoreOf(ReplyMarkers[response].scoreMatch),
           scored  |-> TRUE ]
         @@ chatEvaluate(counted(session, message, ReplyMarkers[response].scoreMatch),
                         getLastQuestion(pushed(history, message, response)),
                         message, aiScoreOf(ReplyMarkers[response].scoreMatch), now)
    ELSE [ history |-> pushed(history, message, response),
           aiScore |-> aiScoreOf(ReplyMarkers[response].scoreMatch),
           scored  |-> FALSE,
           session |-> counted(session, message, ReplyMarkers[response].scoreMatch) ]

\* mutant: the final score cut to one decimal
finalAverage_Truncated(session) ==
    IF session.scoredCount > 0
    THEN (10 * session.totalScore) \div session.scoredCount
    ELSE 0

\* avg: the final score (one decimal) times ten
finalAverage(session) ==
    IF session.scoredCount > 0
    THEN RoundDiv(10 * session.totalScore, session.scoredCount)
    ELSE 0

\* mutant: the summary of the manager (getState) is saved as adaptiveState
SessionSummary_State(session, sessionId, avg, now) ==
    [ sessionId      |-> sessionId,
      candidateId    |-> session.candidateId,
      finalScore     |-> avg,
      passed         |-> avg >= 60,
      questionCount  |-> session.questionCount,
      duration       |-> (now - session.startTime) \div 1000,
      integrityReport |-> getIntegrityReport(session.antiCheat),
      skillGaps      |-> getAnalysis(session.skillGap),
      adaptiveState  |-> getState(session.adaptiveManager),
      questionAnswerPairs |-> session.questionAnswerPairs ]

\* the session summary handed to saveSession.  The feedback report is
\* computed from the other fields and is not part of the record.
SessionSummary(session, sessionId, avg, now) ==
    [ sessionId      |-> sessionId,
      candidateId    |-> session.candidateId,
      finalScore     |-> avg,
      passed         |-> avg >= 60,
      questionCount  |-> session.questionCount,
      duration       |-> (now - session.startTime) \div 1000,
      integrityReport |-> getIntegrityReport(session.antiCheat),
      skillGaps      |-> getAnalysis(session.skillGap),
      adaptiveState  |-> serializeManager(session.adaptiveManager),
      questionAnswerPairs |-> session.questionAnswerPairs ]

\* mutant: the session is saved and reported without being marked completed
ChatFinish_Unmarked(sessionId, session, avg, markers) ==
    /\ sessionData' = MapSet(sessionData, sessionId, session)
    /\ sessionsFile' =
           saveSession(sessionsFile, sessionId,
                       SessionSummary(session, sessionId, avg, Now), Now)
    /\ candidatesFile' \in
           updateCandidateProfile(candidatesFile, session.candidateId,
               [ finalScore |-> avg, passed |-> avg >= 60,
                 skillGaps  |-> getAnalysis(session.skillGap) ], Now)
    /\ sent' = [ status    |-> 200,
                 success   |-> TRUE,
                 sessionId |-> sessionId,
                 interviewComplete |-> TRUE ]

\* the reply holds the completion marker: the session is completed, saved
\* and reported
ChatFinish(sessionId, session, avg, markers) ==
    /\ sessionData' =
           MapSet(sessionData, sessionId,
                  [session EXCEPT !.completed = TRUE,
                                  !.finalScore = [isNull |-> FALSE, tenths |-> avg]])
    /\ sessionsFile' =
           saveSession(sessionsFile, sessionId,
                       SessionSummary(session, sessionId, avg, Now), Now)
    /\ candidatesFile' \in
           updateCandidateProfile(candidatesFile, session.candidateId,
               [ finalScore |-> avg, passed |-> avg >= 60,
                 skillGaps  |-> getAnalysis(session.skillGap) ], Now)
    /\ sent' = [ status    |-> 200,
                 success   |-> TRUE,
                 response  |-> IF markers.withoutCompletion = ""
                               THEN "The interview is complete. Thank you."
                               ELSE markers.withoutCompletion,
                 sessionId |-> sessionId,
                 interviewComplete |-> TRUE,
                 finalScore |-> avg,
                 passed     |-> avg >= 60,
                 integrityReport |-> getIntegrityReport(session.antiCheat) ]

\* the reply holds no completion marker
ChatContinue(sessionId, recorded, markers) ==
    /\ sessionData' = MapSet(sessionData, sessionId, recorded.session)
    /\ sent' = [ status    |-> 200,
                 success   |-> TRUE,
                 response  |-> markers.cleanedResponse,
                 sessionId |-> sessionId,
                 interviewComplete |-> FALSE,
                 answerMeta |->
                     IF recorded.scored
                     THEN [ compositeScore  |-> recorded.answerEvaluation.compositeScore,
                            aiScore         |-> recorded.aiScore,
                            difficultyLevel |-> recorded.session.adaptiveManager.currentLevel,
                            suspicionLevel  |-> recorded.antiCheatResult.suspicionLevel ]
                     ELSE Null ]
    /\ UNCHANGED <<clientVars, sessionsFile, candidatesFile>>

\* the handler from the reply of generateResponse on, recorded being what
\* chatRecord made of the reply
ChatRespond(sessionId, recorded, markers) ==
    /\ conversationHistory' = MapSet(conversationHistory, sessionId, recorded.history)
    /\ IF markers.complete
       THEN ChatFinish(sessionId, recorded.session, finalAverage(recorded.session), markers)
       ELSE ChatContinue(sessionId, recorded, markers)

\* generateResponse returns response: the rest of the handler
ChatComplete(i, response) ==
    /\ i \in 1..Len(inFlight)
    /\ inFlight' = SubSeq(inFlight, 1, i - 1) \o SubSeq(inFlight, i + 1, Len(inFlight))
    /\ ChatRespond(inFlight[i].sessionId,
                   chatRecord(sessionData[inFlight[i].sessionId],
                              conversationHistory[inFlight[i].sessionId],
                              inFlight[i].message, response, Now),
                   ReplyMarkers[response])
    /\ UNCHANGED <<clientVars, clock, adaptiveVars, evalVars, moduleVars, antiCheatVars, arrivals,
                   pendingResumes>>

\* a second passes at the server
ServerTick == clock < MaxServerClock /\ Tick

NextServer ==
    \/ ServerTick
    \/ ChatReject
    \/ \E sessionId \in SessionIds, message \in ChatMessages : ChatBegin(sessionId, message)
    \/ \E i \in 1..MaxArrivals, response \in LlmReplies : ChatComplete(i, response)
    \/ \E i \in 1..MaxArrivals : ChatFail(i)

SpecServer == InitServer /\ [][NextServer]_vars

\* the request of a real answer for session sid arrives in this step
AnswerArrives(sid) ==
    /\ Len(inFlight') = Len(inFlight) + 1
    /\ inFlight'[Len(inFlight')].sessionId = sid
    /\ IsRealAnswer(inFlight'[Len(inFlight')].message)

\* a question was issued in session sid: its history holds a reply
QuestionIssued(sid) ==
    /\ Has(conversationHistory, sid)
    /\ \E i \in 1..Len(conversationHistory[sid]) :
          conversationHistory[sid][i].role = "assistant"

\* the stamp analyzeAnswer measures from was taken before the answer
\* arrived: it is there when the request arrives and the arrival leaves it
\* as it is
C10_Step ==
    \A sid \in SessionIds :
        (AnswerArrives(sid) /\ QuestionIssued(sid))
            => (/\ ~sessionData[sid].antiCheat.lastQuestionTime.isNull
                /\ sessionData'[sid].antiCheat.lastQuestionTime
                       = sessionData[sid].antiCheat.lastQuestionTime)

\* C10: for every real answer the chat endpoint processes, the time stamp
\* from which analyzeAnswer measures the response time was recorded by
\* questionAsked when the question being answered was issued, that is,
\* before the answer to that question arrives at the server.
C10_StampedBeforeAnswerArrives == [][C10_Step]_vars

----------------------------------------------------------------------------
(* The server under __start__ and answers of more than thirty words, each  *)
(* reply of the language model carrying a score                            *)

PipelineMessages == {"__start__", RotatingAnswer}

PipelineReplies == { ReplyHigh, ReplyLow }

NextPipeline ==
    \/ ServerTick
    \/ \E message \in PipelineMessages : ChatBegin("default", message)
    \/ \E i \in 1..MaxArrivals, response \in PipelineReplies : ChatComplete(i, response)

SpecPipeline == InitServer /\ [][NextPipeline]_vars

\* the step processes a real answer of session sid: one more evaluation
AnswerProcessed(sid) ==
    /\ Has(sessionData, sid)
    /\ Len(sessionData'[sid].answerEvaluations)
           = Len(sessionData[sid].answerEvaluations) + 1

\* the last element of a list
Last(arr) == arr[Len(arr)]

\* in the step that processed the answer, recordScore, shouldFollowUp and
\* trackAnswer were invoked with the score composite and analyzeAnswer
\* with the score monitorScore
C11_Invoked(old, new, composite, monitorScore) ==
    /\ new.adaptiveManager =
           shouldFollowUp(recordScore(old.adaptiveManager, composite, Now), composite,
                          Last(new.questionAnswerPairs).question,
                          Last(new.questionAnswerPairs).answer).manager
    /\ new.antiCheat =
           analyzeAnswerWith(old.antiCheat,
                             ChatMetrics[Last(new.questionAnswerPairs).answer],
                             monitorScore, Now).monitor
    /\ new.skillGap =
           trackAnswerWith(old.skillGap,
                           QuestionTopics[Last(new.questionAnswerPairs).question],
                           composite,
                           IF old.lastQuestionConfig = Null THEN "technical"
                           ELSE old.lastQuestionConfig.questionType).detector

C11_StepAsStated ==
    \A sid \in SessionIds :
        AnswerProcessed(sid) =>
            C11_Invoked(sessionData[sid], sessionData'[sid],
                        Last(sessionData'[sid].answerEvaluations).compositeScore,
                        Last(sessionData'[sid].answerEvaluations).compositeScore)

C11_Step ==
    \A sid \in SessionIds :
        AnswerProcessed(sid) =>
            C11_Invoked(sessionData[sid], sessionData'[sid],
                        Last(sessionData'[sid].answerEvaluations).compositeScore,
                        Last(sessionData'[sid].questionAnswerPairs).aiScore)

\* C11 as stated: for every real answer, recordScore, shouldFollowUp,
\* analyzeAnswer and trackAnswer are each invoked with the composite score
\* evaluateAnswer produced for that answer.
C11_AllGetComposite == [][C11_StepAsStated]_vars

\* C11, amended: for every real answer, recordScore, shouldFollowUp and
\* trackAnswer are each invoked with the composite score evaluateAnswer
\* produced for that answer, and analyzeAnswer with the raw score of the
\* language model (clamped to 0..10).
C11_CompositeButRawToMonitor == [][C11_Step]_vars

\* an answer with raw score 9 and composite score 6 was processed, and the
\* monitor raised score_timing_mismatch, which needs a score of 9 or more
C11_Witness ==
    \E sid \in DOMAIN sessionData :
        /\ sessionData[sid].questionAnswerPairs # <<>>
        /\ Last(sessionData[sid].questionAnswerPairs).aiScore = 9
        /\ Last(sessionData[sid].answerEvaluations).compositeScore = 6
        /\ sessionData[sid].adaptiveManager.scoreHistory = <<6>>
        /\ \E i \in 1..Len(sessionData[sid].antiCheat.flags) :
              sessionData[sid].antiCheat.flags[i].type = "score_timing_mismatch"

\* the requests of session sid that wait for the reply of the language model
Awaiting(sid) == { i \in 1..Len(inFlight) : inFlight[i].sessionId = sid }

\* the step begins the handling of a request of session sid
RequestBegins(sid) ==
    /\ Len(inFlight') = Len(inFlight) + 1
    /\ Last(inFlight').sessionId = sid

C12_Step ==
    \A sid \in SessionIds : RequestBegins(sid) => Awaiting(sid) = {}

\* C12: for one session id, the handling of a /api/chat request does not
\* begin while an earlier request of the same session has not yet run to
\* completion; no interleaving of the steps of two turns is reachable.
C12_Serialized == [][C12_Step]_vars

\* the types of the flags in a list of flags
FlagTypes(flags) == { flags[i].type : i \in 1..Len(flags) }

\* the step is an analyzeAnswer that raises a length_spike or a
\* complexity_spike flag
SpikeRaised ==
    /\ AnalyzeStep
    /\ FlagTypes(analysis'.flags) \cap {"length_spike", "complexity_spike"} # {}

C13_StepAsStated == SpikeRaised => Len(monitor.responseLengths) >= 3

C13_Step == SpikeRaised => Len(monitor.responseLengths) >= 2

\* C13 as stated: analyzeAnswer raises a length_spike or a complexity_spike
\* flag only when at least 3 answers were analyzed before the current one.
C13_ThreePriorAnswers == [][C13_StepAsStated]_vars

\* C13, amended: analyzeAnswer raises a length_spike or a complexity_spike
\* flag only when at least 2 answers were analyzed before the current one
\* (the current answer is the third or a later one).
C13_TwoPriorAnswers == [][C13_Step]_vars

\* the third answer analyzed, after two earlier ones, got a length_spike flag
C13_Witness ==
    /\ Len(monitor.responseLengths) = 3
    /\ analysis # Null
    /\ "length_spike" \in FlagTypes(analysis.flags)

\* the flags of the checks that need the response time
TimedFlags == { "fast_response", "high_wpm", "score_timing_mismatch" }

\* the step is the analyzeAnswer of the call (answer, score) by a monitor
\* without a stamp: no flag of a timed check and no timing sample; the word
\* count recorded; the flags of the length, complexity and repetition
\* checks as a stamped monitor raises them; the suspicion score updated
\* with the points of the flags raised
C14_Unstamped(answer, score) ==
    /\ FlagTypes(analysis'.flags) \cap TimedFlags = {}
    /\ monitor'.responseTimings = monitor.responseTimings
    /\ monitor'.responseLengths =
           Append(monitor.responseLengths, MonitorMetrics[answer].wordCount)
    /\ FlagTypes(analysis'.flags) =
           FlagTypes(answerFlagsOf(questionAsked(monitor, 0), MonitorMetrics[answer],
                                   score, Now)) \ TimedFlags
    /\ analysis'.answerSuspicionPoints = SumPoints(analysis'.flags)
    /\ monitor'.overallSuspicionScore =
           nextSuspicionScore(monitor.overallSuspicionScore,
                              analysis'.answerSuspicionPoints)
    /\ monitor'.flags = monitor.flags \o analysis'.flags

C14_Step ==
    (AnalyzeStep /\ monitor.lastQuestionTime.isNull) =>
        \E call \in AnalyzeCalls : C14_Unstamped(call[1], call[2])

\* C14: analyzeAnswer without a prior questionAsked stamp raises none of
\* fast_response, high_wpm and score_timing_mismatch and appends no timing
\* sample, while the length, complexity and repetition checks are still
\* evaluated, the word count is recorded and the suspicion score is updated.
C14_NoStampNoTimedCheck == [][C14_Step]_vars

\* a monitor never stamped analyzed three answers and raised length_spike
\* for the third, which raised its suspicion score
C14_Witness ==
    /\ monitor.lastQuestionTime.isNull
    /\ monitor.responseTimings = <<>>
    /\ Len(monitor.responseLengths) = 3
    /\ analysis # Null
    /\ "length_spike" \in FlagTypes(analysis.flags)
    /\ monitor.overallSuspicionScore > 0

----------------------------------------------------------------------------
(* A stand-alone SkillGapDetector under trackAnswer and getAnalysis          *)

\* how many answers the detector tracks
MaxTracked == 3

RoleLevels == { "junior", "mid", "senior" }
TrackedScores == { 4, 5, 6, 8, 9 }
TrackedQuestions ==
    { "Tell me about your professional background.",
      "How would you design a scalable system with a database?" }

\* _detectTopics of the questions, evaluated once
TrackedTopics == [question \in TrackedQuestions |-> detectTopics(question)]

IdleSkillGap == detector = Null /\ report = Null
IdleGapScore == gapArgs = Null /\ gapScore = Null
IdleFollowUp == lastCall = Null

InitSkillGap ==
    /\ clock = 1
    /\ IdleClient
    /\ IdleAdaptive
    /\ IdleEval
    /\ IdleAntiCheat
    /\ IdleServer
    /\ IdleGapScore
    /\ IdleFollowUp
    /\ \E roleLevel \in RoleLevels : detector = SkillGapDetector(roleLevel)
    /\ report = Null

TrackAnswer(question, score) ==
    /\ detector.questionsAnalyzed < MaxTracked
    /\ detector' = trackAnswerWith(detector, TrackedTopics[question], score,
                                   "technical").detector
    /\ UNCHANGED <<clientVars, clock, adaptiveVars, evalVars, antiCheatVars, serverVars, report,
                   gapArgs, gapScore, lastCall>>

GetAnalysis ==
    /\ report' = getAnalysis(detector)
    /\ UNCHANGED <<clientVars, clock, adaptiveVars, evalVars, antiCheatVars, serverVars, detector,
                   gapArgs, gapScore, lastCall>>

NextSkillGap ==
    \/ \E question \in TrackedQuestions, score \in TrackedScores :
          TrackAnswer(question, score)
    \/ GetAnalysis

SpecSkillGap == InitSkillGap /\ [][NextSkillGap]_vars

\* the entries of a list of gaps or strengths that are about the topic
About(list, topic) == { k \in 1..Len(list) : list[k].topic = topic }

\* the report lists the topic, of the average given in tenths, as the claim
\* says
C15_Listed(topic, average, baseline) ==
    /\ (About(report.gaps, topic) # {}) <=> (baseline - average > 0)
    /\ \A k \in About(report.gaps, topic) :
          /\ report.gaps[k].deficit = baseline - average
          /\ (report.gaps[k].severity = "critical") <=> (baseline - average >= 30)
          /\ (report.gaps[k].severity = "significant")
                <=> (baseline - average >= 15 /\ baseline - average < 30)
          /\ (report.gaps[k].severity = "minor") <=> (baseline - average < 15)
    /\ (About(report.strengths, topic) # {}) <=> (average - baseline >= 10)
    /\ ~(About(report.gaps, topic) # {} /\ About(report.strengths, topic) # {})

\* C15: in the report of getAnalysis a tracked topic is a gap iff baseline
\* minus its average is above 0, of severity critical iff the deficit is 3
\* or more, significant iff it is from 1.5 to below 3, minor otherwise; it
\* is a strength iff its average minus the baseline is 1 or more; no topic
\* is both.
C15_GapsAndStrengths ==
    report # Null =>
        \A i \in 1..Len(report.topicScores) :
            C15_Listed(report.topicScores[i][1], report.topicScores[i][2],
                       10 * getBaselineForTopic(detector, report.topicScores[i][1]))

\* three answers scored 9 on the topic General with the mid baseline: the
\* average 9.0, a strength with surplus 2 and no gap
C15_Witness ==
    /\ detector.roleLevel = "mid"
    /\ detector.topicScores = << <<"General", <<9, 9, 9>> >> >>
    /\ report # Null
    /\ report.topicScores = << <<"General", 90>> >>
    /\ report.gaps = <<>>
    /\ report.strengths = << [ topic |-> "General", currentScore |-> 90,
                               expectedScore |-> 70, surplus |-> 20 ] >>

----------------------------------------------------------------------------
(* _calculateOverallGapScore on lists of gaps                                *)

\* how many gaps a list has
MaxGaps == 3

\* the deficits of the gaps, in tenths: 2.0, 9.9, 10.0 and 11.0
GapDeficits == { 20, 99, 100, 110 }

GapLists == UNION { [1..n -> [deficit : GapDeficits]] : n \in 0..MaxGaps }

InitGapScore ==
    /\ clock = 1
    /\ IdleClient
    /\ IdleAdaptive
    /\ IdleEval
    /\ IdleAntiCheat
    /\ IdleServer
    /\ IdleSkillGap
    /\ IdleFollowUp
    /\ gapArgs \in GapLists
    /\ gapScore = Null

CalculateOverallGapScore ==
    /\ gapScore = Null
    /\ gapScore' = [ isNull |-> FALSE, score |-> calculateOverallGapScore(gapArgs) ]
    /\ UNCHANGED <<clientVars, clock, adaptiveVars, evalVars, antiCheatVars, serverVars, detector,
                   report, gapArgs, lastCall>>

NextGapScore == CalculateOverallGapScore

SpecGapScore == InitGapScore /\ [][NextGapScore]_vars

----------------------------------------------------------------------------
(* A stand-alone AdaptiveDifficultyManager under recordScore, shouldFollowUp, *)
(* getNextQuestionConfig and serialize / fromSerialized                      *)

\* how many scores are recorded, and how far the question index goes
MaxRecorded == 2
MaxQuestions == 11

RecordedScores == { 8 }
FollowUpScores == { 2, 4, 6, 7, 8 }
AskedQuestion == "What is a closure in JavaScript?"

InitFollowUp ==
    /\ clock = 1
    /\ IdleClient
    /\ IdleEval
    /\ IdleAntiCheat
    /\ IdleServer
    /\ IdleSkillGap
    /\ IdleGapScore
    /\ \E startLevel \in 1..2 : mgr = AdaptiveDifficultyManager(startLevel, 0)
    /\ lastCall = Null

RecordScoreCall(score) ==
    /\ Len(mgr.scoreHistory) < MaxRecorded
    /\ mgr' = recordScore(mgr, score, Now)
    /\ lastCall' = [ op |-> "recordScore", score |-> score,
                     result |-> Last(mgr'.adaptationLog) ]
    /\ UNCHANGED <<clientVars, clock, evalVars, antiCheatVars, serverVars, detector, report,
                   gapArgs, gapScore>>

ShouldFollowUpCall(score) ==
    /\ mgr' = shouldFollowUp(mgr, score, AskedQuestion, ShortAnswer).manager
    /\ lastCall' = [ op |-> "shouldFollowUp", score |-> score,
                     result |-> shouldFollowUp(mgr, score, AskedQuestion,
                                               ShortAnswer).result ]
    /\ UNCHANGED <<clientVars, clock, evalVars, antiCheatVars, serverVars, detector, report,
                   gapArgs, gapScore>>

GetNextQuestionConfigCall ==
    /\ mgr.questionIndex < MaxQuestions
    /\ mgr' = getNextQuestionConfig(mgr).manager
    /\ lastCall' = [ op |-> "getNextQuestionConfig",
                     result |-> getNextQuestionConfig(mgr).config ]
    /\ UNCHANGED <<clientVars, clock, evalVars, antiCheatVars, serverVars, detector, report,
                   gapArgs, gapScore>>

\* the manager is replaced by fromSerialized(serialize()) of itself
Restore ==
    /\ mgr' = fromSerialized(serializeManager(mgr))
    /\ lastCall' = [ op |-> "fromSerialized" ]
    /\ UNCHANGED <<clientVars, clock, evalVars, antiCheatVars, serverVars, detector, report,
                   gapArgs, gapScore>>

NextFollowUp ==
    \/ \E score \in RecordedScores : RecordScoreCall(score)
    \/ \E score \in FollowUpScores : ShouldFollowUpCall(score)
    \/ GetNextQuestionConfigCall
    \/ Restore

SpecFollowUp == InitFollowUp /\ [][NextFollowUp]_vars

\* the step is a call of the method op
Called(op) == lastCall' # Null /\ lastCall'.op = op /\ vars' # vars

C17_Decision(score, result) ==
    IF ~mgr.followUpPending /\ score >= 3 /\ score <= 6
    THEN /\ mgr'.followUpPending
         /\ result.shouldFollowUp
         /\ result.reason = IF score <= 4 THEN "incomplete_answer" ELSE "can_elaborate"
    ELSE IF score >= 8 /\ mgr.questionIndex % 3 = 0 /\ ~mgr.followUpPending
    THEN /\ mgr'.followUpPending
         /\ result.shouldFollowUp
         /\ result.reason = "probe_deeper"
    ELSE /\ ~mgr'.followUpPending
         /\ mgr'.followUpContext = Null
         /\ ~result.shouldFollowUp

C17_Step == Called("shouldFollowUp") => C17_Decision(lastCall'.score, lastCall'.result)

\* C17: shouldFollowUp sets the pending flag and returns a follow-up of
\* reason incomplete_answer (score 3..4) or can_elaborate (score 5..6) when
\* none is pending, else one of reason probe_deeper when the score is 8 or
\* more, the question index a multiple of 3 and none pending; in every other
\* case it clears the flag and the context and returns no follow-up.
C17_FollowUpDecision == [][C17_Step]_vars

\* a call with score 4 made while a follow-up was pending: no follow-up, the
\* flag and the context cleared, at question index 3
C17_Witness ==
    /\ lastCall # Null
    /\ lastCall.op = "shouldFollowUp"
    /\ lastCall.score = 4
    /\ ~lastCall.result.shouldFollowUp
    /\ ~mgr.followUpPending
    /\ mgr.followUpContext = Null
    /\ mgr.questionIndex = 3

C18_Config(config) ==
    IF mgr.followUpPending
    THEN /\ config.isFollowUp
         /\ ~mgr'.followUpPending
         /\ mgr'.questionIndex = mgr.questionIndex
    ELSE /\ ~config.isFollowUp
         /\ config.questionType = QUESTION_TYPES[(mgr.questionIndex % 10) + 1]
         /\ mgr'.questionIndex = mgr.questionIndex + 1

C18_Step ==
    /\ Called("getNextQuestionConfig") => C18_Config(lastCall'.result)
    /\ mgr'.questionIndex >= mgr.questionIndex
    \* after a getNextQuestionConfig only shouldFollowUp makes the next one
    \* a follow-up
    /\ Called("getNextQuestionConfig") => ~mgr'.followUpPending
    /\ (mgr'.followUpPending /\ ~mgr.followUpPending) => Called("shouldFollowUp")

\* C18: getNextQuestionConfig with a follow-up pending returns isFollowUp =
\* true, clears the flag and leaves the question index; with none pending it
\* returns isFollowUp = false with the type of the 10-slot cycle at index
\* mod 10 and adds 1 to the index.  The index never decreases and, without a
\* shouldFollowUp in between, two getNextQuestionConfig calls never both
\* return a follow-up.
C18_NextQuestionConfig == [][C18_Step]_vars

\* the eleventh question: the index was 10, the type is the first of the
\* cycle again
C18_Witness ==
    /\ lastCall # Null
    /\ lastCall.op = "getNextQuestionConfig"
    /\ ~lastCall.result.isFollowUp
    /\ lastCall.result.questionType = QUESTION_TYPES[1]
    /\ mgr.questionIndex = 11

\* the calls after the restoration give what they gave before it
C20_SameBehaviour(m, restored) ==
    /\ restored = m
    /\ \A score \in FollowUpScores :
          /\ recordScore(restored, score, Now) = recordScore(m, score, Now)
          /\ shouldFollowUp(restored, score, AskedQuestion, ShortAnswer)
                 = shouldFollowUp(m, score, AskedQuestion, ShortAnswer)
    /\ getNextQuestionConfig(restored) = getNextQuestionConfig(m)

C20_Step == (lastCall' # Null /\ lastCall'.op = "fromSerialized") =>
                C20_SameBehaviour(mgr, mgr')

----------------------------------------------------------------------------
(* The snapshot of a completed session                                       *)

\* the step saves the snapshot of session sid
SnapshotSaved(sid) ==
    /\ Has(sessionsFile', sid)
    /\ getSession(sessionsFile', sid) # getSession(sessionsFile, sid)

\* the snapshot holds the serialized state of the three engines
C19_EngineStates(snapshot, session) ==
    /\ snapshot.adaptiveState = serializeManager(session.adaptiveManager)
    /\ \E field \in {"integrityReport", "skillGaps", "adaptiveState"} :
          snapshot[field] = serializeMonitor(session.antiCheat)
    /\ \E field \in {"integrityReport", "skillGaps", "adaptiveState"} :
          snapshot[field] = serializeDetector(session.skillGap)

\* the snapshot holds the serialized manager, the reports of the monitor
\* and of the detector, and the scores of every evaluation
C19_StateAndReports(snapshot, session) ==
    /\ snapshot.adaptiveState = serializeManager(session.adaptiveManager)
    /\ fromSerialized(snapshot.adaptiveState) = session.adaptiveManager
    /\ snapshot.integrityReport = getIntegrityReport(session.antiCheat)
    /\ snapshot.skillGaps = getAnalysis(session.skillGap)
    /\ snapshot.questionAnswerPairs = session.questionAnswerPairs
    /\ Len(snapshot.questionAnswerPairs) = Len(session.answerEvaluations)
    /\ \A i \in 1..Len(session.answerEvaluations) :
          snapshot.questionAnswerPairs[i].compositeScore
              = session.answerEvaluations[i].compositeScore

C19_StepAsStated ==
    \A sid \in SessionIds :
        SnapshotSaved(sid) =>
            C19_EngineStates(getSession(sessionsFile', sid), sessionData'[sid])

C19_Step ==
    \A sid \in SessionIds :
        SnapshotSaved(sid) =>
            C19_StateAndReports(getSession(sessionsFile', sid), sessionData'[sid])

restoreMonitor(data) ==
    [f \in DOMAIN AntiCheatMonitor |->
        IF f \in DOMAIN data THEN data[f] ELSE AntiCheatMonitor[f]]

C21_SameOutcome(m, call) ==
    LET original == analyzeAnswerWith(m, TextMetrics(call[1]), call[2], Now)
        restored == analyzeAnswerWith(restoreMonitor(serializeMonitor(m)),
                                      TextMetrics(call[1]), call[2], Now)
    IN  /\ FlagTypes(restored.result.flags) = FlagTypes(original.result.flags)
        /\ restored.monitor.overallSuspicionScore
             = original.monitor.overallSuspicionScore

\* C21: a monitor restored from the output of serialize() gives, for the
\* same next answer and score, the same raised flags and the same next
\* suspicion score as the original monitor, the timing-dependent checks
\* that rely on the last question stamp included.
C21_RestoredSameOutcome ==
    \A call \in AnalyzeCalls : C21_SameOutcome(monitor, call)

\* ---------------------------------------------------------------------
\* A turn whose call of the language model fails (server.js 230, 359-362)
\* ---------------------------------------------------------------------

\* the step ends a request of session sid in the catch of the handler
FailedTurn(sid) ==
    /\ \E i \in Awaiting(sid) :
          inFlight' = SubSeq(inFlight, 1, i - 1) \o SubSeq(inFlight, i + 1, Len(inFlight))
    /\ "status" \in DOMAIN sent'
    /\ sent'.status = 500

\* the session of sid in the map sessions, the one a first request creates
\* where the map has none
SessionOr(sessions, sid) ==
    IF Has(sessions, sid) THEN sessions[sid] ELSE NewSession("anonymous", Now)

\* what evaluateAnswer, recordScore, shouldFollowUp, analyzeAnswer,
\* trackAnswer and the scoring of the reply write in a session
PipelineLedger(session) ==
    [ answerEvaluations |-> session.answerEvaluations,
      totalScore        |-> session.totalScore,
      scoredCount       |-> session.scoredCount,
      scoreHistory      |-> session.adaptiveManager.scoreHistory,
      followUpContext   |-> session.adaptiveManager.followUpContext,
      responseLengths   |-> session.antiCheat.responseLengths,
      suspicionScore    |-> session.antiCheat.overallSuspicionScore,
      skillGap          |-> session.skillGap ]

\* the history of sid in the map histories, empty where the map has none
HistoryOr(histories, sid) ==
    IF Has(histories, sid) THEN histories[sid] ELSE <<>>

\* the messages of the candidate and of the interviewer in a history: all
\* but the system prompt at its head
Exchanged(history) == IF history = <<>> THEN <<>> ELSE Tail(history)

C22_StepAsStated ==
    \A sid \in SessionIds :
        (RequestBegins(sid) \/ FailedTurn(sid)) =>
            /\ FailedTurn(sid) => sent'.success = FALSE
            /\ PipelineLedger(SessionOr(sessionData', sid))
                  = PipelineLedger(SessionOr(sessionData, sid))
            /\ HistoryOr(conversationHistory', sid) = HistoryOr(conversationHistory, sid)

C22_Step ==
    \A sid \in SessionIds :
        (RequestBegins(sid) \/ FailedTurn(sid)) =>
            /\ FailedTurn(sid) => sent'.success = FALSE
            /\ PipelineLedger(SessionOr(sessionData', sid))
                  = PipelineLedger(SessionOr(sessionData, sid))
            /\ Exchanged(HistoryOr(conversationHistory', sid))
                  = Exchanged(HistoryOr(conversationHistory, sid))

----------------------------------------------------------------------------
(* The server under __start__ and answers, the replies of the language     *)
(* model with and without a score token                                    *)

ScoringMessages == {"__start__", BriefAnswer}

ScoringReplies == { ReplyPlain, ReplyGarbled, ReplyOver, ReplyLow }

NextScoring ==
    \/ ServerTick
    \/ \E message \in ScoringMessages : ChatBegin("default", message)
    \/ \E i \in 1..MaxArrivals, response \in ScoringReplies : ChatComplete(i, response)

SpecScoring == InitServer /\ [][NextScoring]_vars

\* the number in the score token of a reply, as written in the reply; none
\* where the reply has no token or the token holds no number
TokenOf(reply) ==
    CASE reply = ReplyLow  -> <<3>>
      [] reply = ReplyOver -> <<15>>
      [] OTHER             -> <<>>

C23_Step ==
    \A sid \in SessionIds :
        AnswerProcessed(sid) =>
            LET token == TokenOf(Last(conversationHistory'[sid]).content)
                old   == sessionData[sid]
                new   == sessionData'[sid]
            IN  /\ sent'.status = 200 /\ sent'.success
                /\ token = <<>> =>
                      /\ new.totalScore = old.totalScore
                      /\ new.scoredCount = old.scoredCount
                /\ token # <<>> =>
                      /\ new.totalScore = old.totalScore + Max(0, Min(10, token[1]))
                      /\ new.scoredCount = old.scoredCount + 1

\* C23: when the reply to a real answer has no score token, or a token
\* that does not parse, the raw-score sum and count of the session are
\* unchanged and no error is raised; when a token is present the sum grows
\* by the score clamped to 0..10 and the count by 1.
C23_ScoreRecordedFromToken == [][C23_Step]_vars

\* two answers were evaluated, one replied to without a number and one with
\* the token 15/10
C23_Witness ==
    /\ Has(sessionData, "default")
    /\ Len(sessionData["default"].answerEvaluations) = 2
    /\ sessionData["default"].scoredCount = 1
    /\ sessionData["default"].totalScore = 10
    /\ Last(conversationHistory["default"]).content = ReplyGarbled

----------------------------------------------------------------------------
(* The server under /api/chat requests with and without a resume text and  *)
(* under POST /api/resume, all within one second                            *)

\* the resume text of a /api/chat request
ChatResumes == { Null, Resume(SeniorResume) }

\* the resume text of a POST /api/resume
PostedResumes == { JuniorResume, PlainResume }

ResumeReplies == { ReplyHigh, ReplyPlain }

NextResume ==
    \/ \E message \in ChatMessages, resumeText \in ChatResumes :
          ChatBeginWith("default", message, resumeText)
    \/ \E resumeText \in PostedResumes : PostResume("default", resumeText)
    \/ \E i \in 1..MaxArrivals, response \in ResumeReplies : ChatComplete(i, response)

SpecResume == InitServer /\ [][NextResume]_vars

\* the step takes the request i of session sid from the reply of the
\* language model to the response 200
Replied(sid, i) ==
    /\ i \in Awaiting(sid)
    /\ inFlight' = SubSeq(inFlight, 1, i - 1) \o SubSeq(inFlight, i + 1, Len(inFlight))
    /\ "status" \in DOMAIN sent'
    /\ sent'.status = 200

\* the step is one of the two steps of the handler for a control message
\* of session sid
ControlStep(sid) ==
    \/ RequestBegins(sid) /\ ~IsRealAnswer(Last(inFlight').message)
    \/ \E i \in Awaiting(sid) : Replied(sid, i) /\ ~IsRealAnswer(inFlight[i].message)

\* the step ends the turn of a real answer of session sid with success
AnswerReplied(sid) ==
    \E i \in Awaiting(sid) : Replied(sid, i) /\ IsRealAnswer(inFlight[i].message)

\* the evaluations, the raw-score sum and count, the score history of the
\* manager and the samples and the score of the monitor
ScoreLedger(session) ==
    [ answerEvaluations      |-> session.answerEvaluations,
      totalScore             |-> session.totalScore,
      scoredCount            |-> session.scoredCount,
      scoreHistory           |-> session.adaptiveManager.scoreHistory,
      responseTimings        |-> session.antiCheat.responseTimings,
      responseLengths        |-> session.antiCheat.responseLengths,
      vocabularyComplexities |-> session.antiCheat.vocabularyComplexities,
      overallSuspicionScore  |-> session.antiCheat.overallSuspicionScore ]

\* the level of the manager and the histories of the detector
LevelAndGaps(session) ==
    [ currentLevel       |-> session.adaptiveManager.currentLevel,
      topicScores        |-> session.skillGap.topicScores,
      questionTypeScores |-> session.skillGap.questionTypeScores,
      questionsAnalyzed  |-> session.skillGap.questionsAnalyzed ]

\* the step begins a __start__ request of session sid and applies a resume
\* with skills to the session
ResumeApplied(sid) ==
    /\ RequestBegins(sid)
    /\ Last(inFlight').message = "__start__"
    /\ \E r \in ResumeTexts :
          /\ ResumePrompts[r].difficultyOverride # Null
          /\ sessionData'[sid].adaptiveManager.currentLevel
                = ResumePrompts[r].difficultyOverride.level
          /\ sessionData'[sid].skillGap
                = SkillGapDetector(ResumePrompts[r].experienceLevel.level)

\* a list begins with another
IsPrefix(short, long) ==
    Len(short) <= Len(long) /\ SubSeq(long, 1, Len(short)) = short

\* every successful real answer appends one evaluation and no step changes
\* or removes an evaluation
EvaluationsGrow(sid) ==
    /\ AnswerReplied(sid) =>
          Len(sessionData'[sid].answerEvaluations)
             = Len(sessionData[sid].answerEvaluations) + 1
    /\ Has(sessionData, sid) =>
          IsPrefix(sessionData[sid].answerEvaluations,
                   sessionData'[sid].answerEvaluations)

C24_StepAsStated ==
    \A sid \in SessionIds :
        /\ EvaluationsGrow(sid)
        /\ ControlStep(sid) =>
              /\ ScoreLedger(SessionOr(sessionData', sid))
                    = ScoreLedger(SessionOr(sessionData, sid))
              /\ LevelAndGaps(SessionOr(sessionData', sid))
                    = LevelAndGaps(SessionOr(sessionData, sid))

C24_Step ==
    \A sid \in SessionIds :
        /\ EvaluationsGrow(sid)
        /\ ControlStep(sid) =>
              /\ ScoreLedger(SessionOr(sessionData', sid))
                    = ScoreLedger(SessionOr(sessionData, sid))
              /\ \/ LevelAndGaps(SessionOr(sessionData', sid))
                       = LevelAndGaps(SessionOr(sessionData, sid))
                 \/ ResumeApplied(sid)

\* C24 as stated: the control messages __start__, __end__ and __timeout__
\* never create an AnswerEvaluation and leave the raw-score sum and count,
\* the adaptive score history and level, the anti-cheat samples and
\* suspicion score and the skill-gap histories unchanged; every real answer
\* whose turn succeeds appends exactly one AnswerEvaluation, and no record
\* of the list is modified or removed.
C24_ControlChangesNoEngine == [][C24_StepAsStated]_vars

\* C24, amended: as stated, except that a __start__ message with a resume
\* text in which skills are found, sent with it or pending, sets the
\* adaptive level to the difficulty of the resume and replaces the skill-gap
\* detector by a new one.
C24_ControlChangesNoScore == [][C24_Step]_vars

\* a real answer and a control message were replied to
C24_Witness ==
    /\ Has(sessionData, "default")
    /\ inFlight = <<>>
    /\ Len(sessionData["default"].answerEvaluations) = 1
    /\ sessionData["default"].questionCount = 2
    /\ sessionData["default"].scoredCount = 1
    /\ sessionData["default"].adaptiveManager.currentLevel = 2

----------------------------------------------------------------------------
(* The server under the requests of two sessions                            *)

TwoSessions == { "session-a", "session-b" }

TwoSessionMessages == { "__start__", BriefAnswer }

TwoSessionReplies == { ReplyHigh, ReplyComplete }

NextSessions ==
    \/ \E sessionId \in TwoSessions, message \in TwoSessionMessages :
          ChatBegin(sessionId, message)
    \/ \E i \in 1..MaxArrivals, response \in TwoSessionReplies : ChatComplete(i, response)
    \/ \E i \in 1..MaxArrivals : ChatFail(i)

SpecSessions == InitServer /\ [][NextSessions]_vars

\* the step is a step of the handler for a request of session sid: up to
\* the call of the language model, or from its reply or failure on
RequestStep(sid) ==
    \/ RequestBegins(sid)
    \/ \E i \in Awaiting(sid) :
          inFlight' = SubSeq(inFlight, 1, i - 1) \o SubSeq(inFlight, i + 1, Len(inFlight))

\* what the server holds of a session: its question count, scores,
\* evaluations and engines (the session object) and its history; Null for
\* a session it does not have
Held(sessions, histories, sid) ==
    IF Has(sessions, sid)
    THEN [ session |-> sessions[sid], history |-> HistoryOr(histories, sid) ]
    ELSE Null

C25_Step ==
    \A a \in TwoSessions : \A b \in TwoSessions \ {a} :
        RequestStep(a) =>
            Held(sessionData', conversationHistory', b)
               = Held(sessionData, conversationHistory, b)

\* C25: sessions with different ids are independent: every step of a
\* request for a session leaves the question count, the scores, the
\* evaluation list, the engine states and the history of every other session
\* as they are, so that these are what the session's own requests produce.
C25_SessionsIndependent == [][C25_Step]_vars

\* an answer of one session was evaluated between the start and the reply
\* of the other one
C25_Witness ==
    /\ Has(sessionData, "session-a")
    /\ Has(sessionData, "session-b")
    /\ Len(sessionData["session-a"].answerEvaluations) = 1
    /\ sessionData["session-a"].adaptiveManager.scoreHistory # <<>>
    /\ sessionData["session-b"].questionCount = 0
    /\ sessionData["session-b"].answerEvaluations = <<>>
    /\ Len(inFlight) = 1

\* ---------------------------------------------------------------------
\* The order of the language model call, the engines and the persistence
\* write within a turn (server.js 230-327)
\* ---------------------------------------------------------------------

\* the state of the three engines of a session
Engines(session) ==
    [ adaptiveManager |-> session.adaptiveManager,
      antiCheat       |-> session.antiCheat,
      skillGap        |-> session.skillGap ]

\* the step writes sessions.json or candidates.json
PersistenceWrite == sessionsFile' # sessionsFile \/ candidatesFile' # candidatesFile

\* a persistence write is made in the step that takes a reply of the
\* language model for a session, which the step leaves marked completed and
\* saved; every session saved is marked completed
WriteWhenCompleted ==
    /\ PersistenceWrite =>
          \E sid \in SessionIds :
              /\ \E i \in Awaiting(sid) : Replied(sid, i)
              /\ sessionData'[sid].completed
              /\ Has(sessionsFile', sid)
    /\ \A sid \in DOMAIN sessionsFile' : sessionData'[sid].completed

C26_StepAsStated ==
    /\ WriteWhenCompleted
    /\ \A sid \in SessionIds :
          Engines(SessionOr(sessionData', sid)) # Engines(SessionOr(sessionData, sid))
             => AnswerReplied(sid)

C26_Step ==
    /\ WriteWhenCompleted
    /\ \A sid \in SessionIds :
          PipelineLedger(SessionOr(sessionData', sid))
                # PipelineLedger(SessionOr(sessionData, sid))
             => AnswerReplied(sid)

\* C26 as stated: in every turn the call of the language model returns
\* before evaluateAnswer or any other engine is invoked (no engine changes
\* before the reply), the persistence write happens only after the
\* completed flag of the session was set, and no persistence write happens
\* for a session that is not marked completed.
C26_EnginesAfterReply == [][C26_StepAsStated]_vars

\* C26, amended: in every turn the call of the language model returns
\* before evaluateAnswer, recordScore, shouldFollowUp, analyzeAnswer or
\* trackAnswer is invoked, while getNextQuestionConfig and questionAsked
\* are invoked before the call; the persistence write happens only with the
\* completed flag of the session set, and never for a session that is not
\* marked completed.
C26_PipelineAfterReply == [][C26_Step]_vars

\* a session with an evaluated answer was completed and written
C26_Witness ==
    /\ Has(sessionsFile, "default")
    /\ Has(candidatesFile, "anonymous")
    /\ sessionData["default"].completed
    /\ Len(sessionData["default"].answerEvaluations) = 1
    /\ sessionData["default"].adaptiveManager.questionIndex >= 2

\* the step is a POST /api/resume
ResumePosted ==
    /\ inFlight' = inFlight
    /\ "experienceLevel" \in DOMAIN sent'
    /\ sent'.status = 200

C27_Step ==
    \A sid \in SessionIds :
        ( /\ Has(sessionData, sid)
          /\ sessionData[sid].answerEvaluations # <<>>
          /\ ResumePosted \/ RequestBegins(sid) )
        => /\ sessionData'[sid].adaptiveManager.currentLevel
                 = sessionData[sid].adaptiveManager.currentLevel
           /\ sessionData'[sid].skillGap = sessionData[sid].skillGap

\* C27: once a real answer has been recorded in a session, no resume
\* operation (a POST /api/resume for the session, or a chat message with a
\* resume text) changes the difficulty level of the session or replaces its
\* skill-gap detector and the topic scores it recorded.
C27_ResumeOnlyInitializes == [][C27_Step]_vars

----------------------------------------------------------------------------
(* The server under the requests of one session, one after the other, up   *)
(* to the completion of the interview and beyond                            *)

\* most requests of the session
MaxTurns == 3

TurnMessages == { "__end__", BriefAnswer }

TurnReplies == { ReplyLow, ReplyHigh, ReplyOver, ReplyComplete }

\* a request arrives while none is waiting for the language model
TurnBegin(message) ==
    /\ inFlight = <<>>
    /\ arrivals < MaxTurns
    /\ ChatArrives("default", message, Null)

NextTurns ==
    \/ \E message \in TurnMessages : TurnBegin(message)
    \/ \E response \in TurnReplies : ChatComplete(1, response)

SpecTurns == InitServer /\ [][NextTurns]_vars

\* the step completes the interview of session sid
Completes(sid) ==
    /\ \E i \in Awaiting(sid) : Replied(sid, i)
    /\ sent'.interviewComplete

\* tenths is sum / count rounded to one decimal, in tenths
RoundedToTenths(tenths, sum, count) ==
    /\ 2 * count * tenths <= 20 * sum + count
    /\ 20 * sum + count < 2 * count * (tenths + 1)

C28_Step ==
    \A sid \in SessionIds :
        Completes(sid) =>
            LET session == sessionData'[sid]
            IN  /\ session.finalScore = [isNull |-> FALSE, tenths |-> sent'.finalScore]
                /\ sent'.finalScore \in 0..100
                /\ sent'.passed <=> sent'.finalScore >= 60
                /\ session.scoredCount = 0 =>
                      sent'.finalScore = 0 /\ ~sent'.passed
                /\ session.scoredCount > 0 =>
                      RoundedToTenths(sent'.finalScore, session.totalScore,
                                      session.scoredCount)

\* C28: at completion the final score is the raw-score sum divided by the
\* count, rounded to one decimal, and passed holds iff it is at least 6;
\* with no score recorded the final score is 0 and passed is false.
C28_FinalScore == [][C28_Step]_vars

\* an interview was completed with three scores whose average is rounded up,
\* 9 + 10 + 7 over 3 giving 8.7
C28_Witness ==
    /\ "interviewComplete" \in DOMAIN sent
    /\ sent.interviewComplete
    /\ sessionData["default"].scoredCount = 3
    /\ sessionData["default"].totalScore = 26
    /\ sent.finalScore = 87
    /\ sent.passed

C29_Step ==
    \A sid \in SessionIds :
        (Has(sessionData, sid) /\ sessionData[sid].completed) =>
            /\ sessionData'[sid].answerEvaluations = sessionData[sid].answerEvaluations
            /\ sessionData'[sid].finalScore = sessionData[sid].finalScore
            /\ sessionsFile' = sessionsFile
            /\ candidatesFile' = candidatesFile

\* C29: completion is terminal: once a session is marked completed, no
\* later message of the session appends an AnswerEvaluation, changes the
\* final score or triggers another persistence write; the session is saved
\* once and its candidate's totalInterviews incremented once.
C29_CompletionTerminal == [][C29_Step]_vars

\* the question configuration of the last turn of a session was a follow-up
FollowUpTurn(session) ==
    IF session.lastQuestionConfig = Null THEN FALSE
    ELSE session.lastQuestionConfig.isFollowUp

C30_Step ==
    \A sid \in SessionIds :
        ( /\ RequestBegins(sid)
          /\ Has(sessionData, sid)
          /\ FollowUpTurn(sessionData[sid]) )
        => /\ ~FollowUpTurn(sessionData'[sid])
           /\ sessionData'[sid].adaptiveManager.questionIndex
                 > sessionData[sid].adaptiveManager.questionIndex

\* C30: in a session driven through the chat endpoint, whatever the scores
\* of the answers, a turn whose question configuration is a follow-up is
\* followed by a turn configured from the normal rotation, which advances
\* the question index: no two consecutive turns are both follow-ups.
C30_NoConsecutiveFollowUps == [][C30_Step]_vars

\* ---------------------------------------------------------------------------
\* The answer counts of a session (server.js 259-282)
\* ---------------------------------------------------------------------------

\* how many answers each engine of a session has processed
AnswerCounts(session) ==
    << Len(session.answerEvaluations),
       Len(session.questionAnswerPairs),
       Len(session.adaptiveManager.scoreHistory),
       Len(session.antiCheat.responseLengths),
       session.skillGap.questionsAnalyzed >>

\* C31: in every session state between requests the engines agree on the
\* number of processed answers: the AnswerEvaluation list, the
\* question/answer pair list, the adaptive score history, the anti-cheat
\* word-count samples and the skill-gap detector's questionsAnalyzed all
\* have the same count, and scoredCount never exceeds it.
C31_EnginesAgree ==
    \A sid \in DOMAIN sessionData :
        LET counts == AnswerCounts(sessionData[sid])
        IN  /\ \A k \in 2..5 : counts[k] = counts[1]
            /\ sessionData[sid].scoredCount <= counts[1]

\* ---------------------------------------------------------------------------
\* The level history of a session (adaptive.js constructor / recordScore,
\* feedback.js difficultyProgression)
\* ---------------------------------------------------------------------------

\* the level history of manager m records the levels in use: one entry more
\* than scores, ending at the current level, in steps of at most one level
LevelHistoryTracks(m) ==
    /\ Len(m.levelHistory) = Len(m.scoreHistory) + 1
    /\ m.levelHistory[Len(m.levelHistory)] = m.currentLevel
    /\ \A k \in 1..(Len(m.levelHistory) - 1) :
           /\ m.levelHistory[k + 1] - m.levelHistory[k] <= 1
           /\ m.levelHistory[k] - m.levelHistory[k + 1] <= 1

C32_Step ==
    \A sid \in DOMAIN sessionData' :
        /\ LevelHistoryTracks(sessionData'[sid].adaptiveManager)
        /\ ~Has(sessionData, sid)
              => sessionData'[sid].lastQuestionConfig.difficulty
                     = sessionData'[sid].adaptiveManager.levelHistory[1]

\* C32: in every session state reachable through the server's endpoints the
\* adaptive level history has one more entry than the score history, its
\* first entry is the level at which the session's first question was
\* configured, its last entry is the current level, and adjacent entries
\* differ by at most 1.
C32_LevelHistory == [][C32_Step]_vars

\* ---------------------------------------------------------------------------
\* A failed turn and the session (server.js 160-230, 359-362)
\* ---------------------------------------------------------------------------

C33_Step ==
    \A sid \in SessionIds :
        (RequestBegins(sid) \/ FailedTurn(sid)) =>
            /\ Has(sessionData', sid) = Has(sessionData, sid)
            /\ Has(sessionData, sid) =>
                  /\ sessionData'[sid].adaptiveManager.questionIndex
                        = sessionData[sid].adaptiveManager.questionIndex
                  /\ sessionData'[sid].adaptiveManager.followUpPending
                        = sessionData[sid].adaptiveManager.followUpPending
                  /\ sessionData'[sid].antiCheat.lastQuestionTime
                        = sessionData[sid].antiCheat.lastQuestionTime
                  /\ sessionData'[sid] = sessionData[sid]

\* C33: a turn that fails because the call of the language model fails (the
\* steps of the handler up to the call, then its catch) leaves the whole
\* session state unchanged: the adaptive controller's question index and
\* pending follow-up flag, the anti-cheat question stamp and the existence
\* of the session are as before the turn.
C33_FailedTurnLeavesSession == [][C33_Step]_vars

\* the catch of a failed turn alone changes no session
C33_CatchStep ==
    \A sid \in SessionIds : FailedTurn(sid) => sessionData' = sessionData

C33_CatchRestoresNothing == [][C33_CatchStep]_vars

\* ---------------------------------------------------------------------------
\* The question type of a tracked answer (server.js 116, 215, 277-278)
\* ---------------------------------------------------------------------------

\* session._lastQuestionConfig?.questionType || 'technical'
RecordingType(session) ==
    IF session.lastQuestionConfig = Null THEN "technical"
    ELSE session.lastQuestionConfig.questionType

\* the step tracks an answer of sid under the type the session holds
TracksUnderSessionType(sid) ==
    sessionData'[sid].skillGap.questionTypeScores
        = PushScore(sessionData[sid].skillGap.questionTypeScores,
                    RecordingType(sessionData[sid]),
                    Last(sessionData'[sid].answerEvaluations).compositeScore)

C34_Step ==
    \A sid \in SessionIds :
        /\ AnswerProcessed(sid) => TracksUnderSessionType(sid)
        /\ (AnswerArrives(sid) /\ QuestionIssued(sid))
              => RecordingType(sessionData'[sid]) = RecordingType(sessionData[sid])

\* C34: the question type under which trackAnswer records the score of an
\* answer is the type of the configuration that generated the question
\* being answered: trackAnswer records under the type the session holds, and
\* the arrival of the answer to an issued question leaves that type as it
\* was when the question was generated.
C34_TypeOfAnsweredQuestion == [][C34_Step]_vars

C34_TrackStep ==
    \A sid \in SessionIds : AnswerProcessed(sid) => TracksUnderSessionType(sid)

\* trackAnswer records under the type the session holds when the reply is
\* processed
C34_TracksUnderSessionType == [][C34_TrackStep]_vars

\* ---------------------------------------------------------------------------
\* Question configurations per turn (server.js 206-215)
\* ---------------------------------------------------------------------------

\* the question index of sid in the map sessions, 0 before the session exists
QuestionIndexOf(sessions, sid) ==
    SessionOr(sessions, sid).adaptiveManager.questionIndex

C35_Step ==
    \A sid \in SessionIds :
        /\ QuestionIndexOf(sessionData', sid) - QuestionIndexOf(sessionData, sid) <= 1
        /\ QuestionIndexOf(sessionData', sid) >= QuestionIndexOf(sessionData, sid)

\* C35: every turn of the chat endpoint consumes one question configuration:
\* no step of a turn, the first message of a session included, advances the
\* question index by more than 1, so no slot of the rotation is skipped.
C35_OneConfigPerTurn == [][C35_Step]_vars

\* ---------------------------------------------------------------------------
\* The suspicion score and the points of single answers (anti-cheat.js 83-165)
\* ---------------------------------------------------------------------------

\* the points of the six checks of analyzeAnswer together
MaxAnswerPoints == 15 + 25 + 15 + 10 + 20 + 5

C36_Step ==
    AnalyzeStep =>
        /\ analysis'.answerSuspicionPoints <= MaxAnswerPoints
        /\ monitor'.overallSuspicionScore
              <= Max(monitor.overallSuspicionScore, analysis'.answerSuspicionPoints)
        /\ ( /\ monitor'.overallSuspicionScore >= HIGH_SUSPICION
             /\ monitor.overallSuspicionScore < HIGH_SUSPICION )
              => analysis'.answerSuspicionPoints >= HIGH_SUSPICION

\* C36: no call of analyzeAnswer takes the suspicion score above the larger
\* of its previous value and the points raised by that answer, which are at
\* most 90; so the score never exceeds the largest per-answer point total of
\* the session, and it enters the level high (score >= 60) only with an
\* answer that raised at least 60 points.
C36_BoundedByLargestAnswer == [][C36_Step]_vars

\* a flagged answer was followed by one with fewer points, and the score is
\* above the points of the last answer
C36_Witness ==
    /\ analysis # Null
    /\ Len(monitor.responseLengths) >= 2
    /\ monitor.overallSuspicionScore > analysis.answerSuspicionPoints
    /\ monitor.overallSuspicionScore >= LOW_SUSPICION

----------------------------------------------------------------------------
(* The monitor under answers that raise flags followed by answers that     *)
(* raise none                                                              *)

\* answers analyzed while flags may still be raised, and the answers that
\* follow them
MaxRaised == 2
MaxFaded == 10

\* analyzeAnswer(answer, score) among the first MaxRaised answers
RaiseAnswer(answer, score) ==
    /\ Len(monitor.responseLengths) < MaxRaised
    /\ LET r == analyzeAnswerWith(monitor, MonitorMetrics[answer], score, Now)
       IN  /\ monitor' = r.monitor
           /\ analysis' = r.result
    /\ UNCHANGED <<clientVars, clock, adaptiveVars, evalVars, moduleVars, serverVars>>

\* analyzeAnswer(ShortAnswer, 5): eight words, no long answer to compare with
FadeAnswer ==
    /\ Len(monitor.responseLengths) < MaxRaised + MaxFaded
    /\ LET r == analyzeAnswerWith(monitor, MonitorMetrics[ShortAnswer], 5, Now)
       IN  /\ monitor' = r.monitor
           /\ analysis' = r.result
    /\ UNCHANGED <<clientVars, clock, adaptiveVars, evalVars, moduleVars, serverVars>>

\* a second passes while flags may still be raised; the answers that follow
\* have too few words for any check that reads the clock
RaiseTick == Len(monitor.responseLengths) < MaxRaised /\ Tick

RaiseQuestionAsked == Len(monitor.responseLengths) < MaxRaised /\ QuestionAsked

NextFade ==
    \/ RaiseTick
    \/ RaiseQuestionAsked
    \/ \E call \in AnalyzeCalls : RaiseAnswer(call[1], call[2])
    \/ FadeAnswer

SpecFade == InitAntiCheat /\ [][NextFade]_vars

\* an answer is analyzed and raises no flag
CleanStep == AnalyzeStep /\ analysis'.answerSuspicionPoints = 0

C37_StepAsStated ==
    (CleanStep /\ monitor.overallSuspicionScore > 0)
        => monitor'.overallSuspicionScore < monitor.overallSuspicionScore

C37_Step ==
    CleanStep =>
        /\ monitor.overallSuspicionScore > 1
              => monitor'.overallSuspicionScore < monitor.overallSuspicionScore
        /\ monitor.overallSuspicionScore <= 1
              => monitor'.overallSuspicionScore = monitor.overallSuspicionScore

\* C37 as stated: from any suspicion score, if every answer analyzed from
\* then on raises no flag, the suspicion score eventually reaches 0.  After
\* an answer without flags the new score depends on the old score alone, so
\* the score reaches 0 exactly if every such answer lowers a score above 0.
C37_FadesToZero == [][C37_StepAsStated]_vars

\* C37, amended: from any suspicion score, if every answer analyzed from
\* then on raises no flag, the suspicion score eventually reaches 1 or 0:
\* every such answer lowers a score above 1 and leaves a score of 1 or 0 as
\* it is.
C37_FadesToOne == [][C37_Step]_vars

\* flags were raised, and answers without flags brought the score down to 1
C37_Witness ==
    /\ monitor.flags # <<>>
    /\ analysis # Null
    /\ analysis.answerSuspicionPoints = 0
    /\ monitor.overallSuspicionScore = 1
    /\ Len(monitor.responseLengths) = MaxRaised + MaxFaded

----------------------------------------------------------------------------
(* The server under requests one after the other, with /api/reset and      *)
(* GET /api/session/:sessionId/feedback                                    *)

\* the summary of a feedback report (feedback.js 67-74); finalScore is in
\* tenths
FeedbackSummary(finalScore, questionCount, duration) ==
    [ overallScore  |-> finalScore,
      passed        |-> finalScore >= 60,
      questionCount |-> questionCount,
      duration      |-> duration ]

\* the feedbackReport of a stored session: saveSession is called at
\* completion only, with the report built from these values (server.js
\* 295-319)
storedFeedbackReport(stored) ==
    FeedbackSummary(stored.finalScore, stored.questionCount, stored.duration)

\* POST /api/reset
Reset(sessionId) ==
    /\ inFlight = <<>>
    /\ conversationHistory' = MapDelete(conversationHistory, sessionId)
    /\ sessionData' = MapDelete(sessionData, sessionId)
    /\ sent' = [ status |-> 200, success |-> TRUE, message |-> "Conversation reset" ]
    /\ UNCHANGED <<clientVars, clock, adaptiveVars, evalVars, moduleVars, antiCheatVars, inFlight,
                   arrivals, sessionsFile, candidatesFile, pendingResumes>>

\* GET /api/session/:sessionId/feedback
GetFeedback(sessionId) ==
    /\ inFlight = <<>>
    /\ sent' =
           IF getSession(sessionsFile, sessionId) # Null
           THEN [ status   |-> 200,
                  success  |-> TRUE,
                  feedback |-> storedFeedbackReport(getSession(sessionsFile, sessionId)) ]
           ELSE IF ~Has(sessionData, sessionId) \/ ~sessionData[sessionId].completed
           THEN [ status |-> 200, success |-> FALSE, error |-> "No feedback available" ]
           ELSE [ status   |-> 200,
                  success  |-> TRUE,
                  feedback |->
                      FeedbackSummary(sessionData[sessionId].finalScore.tenths,
                                      sessionData[sessionId].questionCount,
                                      (Now - sessionData[sessionId].startTime) \div 1000) ]
    /\ UNCHANGED <<clientVars, clock, adaptiveVars, evalVars, moduleVars, antiCheatVars,
                   sessionData, conversationHistory, inFlight, arrivals, sessionsFile,
                   candidatesFile, pendingResumes>>

FeedbackMessages == { "__start__", BriefAnswer }
FeedbackReplies == { ReplyHigh, ReplyComplete }

NextFeedback ==
    \/ \E message \in FeedbackMessages : TurnBegin(message)
    \/ \E response \in FeedbackReplies : ChatComplete(1, response)
    \/ Reset("default")
    \/ GetFeedback("default")

SpecFeedback == InitServer /\ [][NextFeedback]_vars

\* the step answers a feedback request with a report
FeedbackReturned == sent' # sent /\ "feedback" \in DOMAIN sent'

C38_Step ==
    (FeedbackReturned /\ Has(sessionData, "default"))
        => sessionData["default"].completed

\* C38: the feedback endpoint returns a report only for the current session
\* of the id and only once that session has completed: while the id has a
\* session that has not completed (as after a completed session was reset
\* and the id reused), no report is returned.
C38_ReportOfCurrentSession == [][C38_Step]_vars

----------------------------------------------------------------------------
(* index.tsx : HomeScreen, the interview screen of the app.  client holds  *)
(* its refs and timers, the state of the speech engines and the fetches of *)
(* /api/chat that await their reply; the server answers each fetch with a  *)
(* question, with a completed interview or with a failure.                 *)

\* the seconds of the countdown (INTERVIEW_DURATION) and the fetches and
\* restarts that may be pending together
MaxSeconds == 2
MaxPending == 2

\* HomeScreen after mount: the countdown runs and the auto-start effect has
\* called sendToAI("__start__")
MountedClient ==
    [ isSpeaking       |-> FALSE,
      isProcessing     |-> TRUE,
      silenceTimer     |-> FALSE,
      noResponseTimer  |-> FALSE,
      transcript       |-> FALSE,     \* finalTranscriptRef holds words
      hasSent          |-> FALSE,
      started          |-> TRUE,
      timer            |-> TRUE,      \* the countdown interval is set
      listening        |-> FALSE,
      interviewEnded   |-> FALSE,
      remainingSeconds |-> MaxSeconds,
      recognizing      |-> FALSE,     \* speech recognition runs
      utterance        |-> FALSE,     \* Speech.speak is playing
      pending          |-> << "__start__" >>,
      endSent          |-> FALSE,     \* sendToAI("__end__") has been called
      restartTimers    |-> 0,         \* resetInterview calls not yet restarted
      navigateTimer    |-> FALSE,     \* the setTimeout before router.push
      screen           |-> "interview" ]

\* sendToAI(message) up to its await fetch
sendToAI(c, message) ==
    IF c.interviewEnded /\ message \notin {"__end__", "__start__"} THEN c
    ELSE [c EXCEPT !.isProcessing = TRUE, !.pending = Append(@, message),
                   !.endSent = @ \/ message = "__end__"]

\* sendTranscript(); the transcript is sent as BriefAnswer
sendTranscript(c) ==
    IF ~c.transcript \/ c.hasSent \/ c.isSpeaking \/ c.isProcessing \/ c.interviewEnded
    THEN c
    ELSE sendToAI([c EXCEPT !.hasSent = TRUE, !.silenceTimer = FALSE,
                            !.noResponseTimer = FALSE, !.listening = FALSE],
                  BriefAnswer)

\* endInterview()
endInterview(c) ==
    LET ended == [c EXCEPT !.interviewEnded = TRUE, !.silenceTimer = FALSE,
                           !.noResponseTimer = FALSE, !.timer = FALSE,
                           !.utterance = FALSE, !.isSpeaking = FALSE,
                           !.listening = FALSE]
    IN  IF ~c.isProcessing THEN sendToAI(ended, "__end__") ELSE ended

\* speakText(text)
speakText(c) ==
    IF c.interviewEnded THEN c
    ELSE [c EXCEPT !.utterance = TRUE, !.isSpeaking = TRUE, !.listening = FALSE]

\* the rest of sendToAI(message) once the reply has arrived
replyHandled(c, message, outcome) ==
    LET handled ==
            IF outcome = "failed" THEN c
            ELSE IF outcome = "complete"
            THEN [c EXCEPT !.interviewEnded = TRUE, !.silenceTimer = FALSE,
                           !.noResponseTimer = FALSE, !.timer = FALSE,
                           !.navigateTimer = TRUE]
            ELSE IF message = "__end__"
            THEN [c EXCEPT !.interviewEnded = TRUE, !.utterance = FALSE,
                           !.screen = "results"]
            ELSE speakText(c)
    IN  [handled EXCEPT !.isProcessing = FALSE]

ClientStep(next) ==
    /\ client # Null
    /\ client' = next
    /\ UNCHANGED <<clock, adaptiveVars, evalVars, moduleVars, antiCheatVars, serverVars>>

\* the countdown interval fires
CountdownTick ==
    /\ client.timer
    /\ ClientStep(IF client.remainingSeconds <= 1
                  THEN [endInterview(client) EXCEPT !.remainingSeconds = 0]
                  ELSE [client EXCEPT !.remainingSeconds = @ - 1])

ReplyOutcomes == { "question", "complete", "failed" }

\* the reply to the i-th pending fetch arrives
Reply(i, outcome) ==
    /\ i \in 1..Len(client.pending)
    /\ ClientStep(replyHandled(
           [client EXCEPT !.pending = SubSeq(@, 1, i - 1) \o SubSeq(@, i + 1, Len(@))],
           client.pending[i], outcome))

\* onDone of Speech.speak
SpeechDone ==
    /\ client.utterance
    /\ ClientStep(IF client.interviewEnded
                  THEN [client EXCEPT !.utterance = FALSE, !.isSpeaking = FALSE]
                  ELSE [client EXCEPT !.utterance = FALSE, !.isSpeaking = FALSE,
                                      !.noResponseTimer = TRUE])

\* the no-response timer fires
NoResponseTimeout ==
    /\ client.noResponseTimer
    /\ LET fired == [client EXCEPT !.noResponseTimer = FALSE]
       IN  ClientStep(IF ~fired.listening /\ ~fired.isProcessing /\ ~fired.isSpeaking
                         /\ ~fired.interviewEnded
                      THEN sendToAI(fired, "__timeout__")
                      ELSE fired)

\* the microphone button while not listening: startListening() and the
\* "start" event of the speech recognition
StartListening ==
    /\ client.screen = "interview"
    /\ ~client.isProcessing
    /\ ~client.listening
    /\ ~client.recognizing
    /\ ClientStep([client EXCEPT !.utterance = FALSE, !.isSpeaking = FALSE,
                                 !.noResponseTimer = FALSE, !.transcript = FALSE,
                                 !.hasSent = FALSE, !.recognizing = TRUE,
                                 !.listening = TRUE])

\* the "result" event of the speech recognition
RecognitionResult ==
    /\ client.recognizing
    /\ ~(client.isSpeaking \/ client.isProcessing \/ client.hasSent)
    /\ ClientStep([client EXCEPT !.transcript = TRUE, !.silenceTimer = TRUE])

\* the silence timer fires
SilenceTimeout ==
    /\ client.silenceTimer
    /\ ClientStep(sendTranscript([client EXCEPT !.silenceTimer = FALSE]))

\* the "end" event of the speech recognition
RecognitionEnd ==
    /\ client.recognizing
    /\ LET ended == [client EXCEPT !.recognizing = FALSE, !.listening = FALSE,
                                   !.silenceTimer = FALSE]
       IN  ClientStep(IF ~ended.hasSent /\ ended.transcript
                      THEN sendTranscript(ended) ELSE ended)

\* the microphone button while listening: stopListening()
StopListening ==
    /\ client.screen = "interview"
    /\ ~client.isProcessing
    /\ client.listening
    /\ LET stopped == [client EXCEPT !.silenceTimer = FALSE, !.noResponseTimer = FALSE,
                                     !.listening = FALSE]
       IN  ClientStep(IF ~stopped.hasSent /\ stopped.transcript
                      THEN sendTranscript(stopped) ELSE stopped)

\* the mute button: stopSpeaking()
StopSpeaking ==
    /\ client.screen = "interview"
    /\ client.isSpeaking
    /\ ClientStep([client EXCEPT !.utterance = FALSE, !.isSpeaking = FALSE])

\* the restart button: resetInterview() up to its await fetch of /api/reset
Restart ==
    /\ client.screen = "interview"
    /\ Len(client.pending) + client.restartTimers < MaxPending
    /\ ClientStep([client EXCEPT !.utterance = FALSE, !.isSpeaking = FALSE,
                                 !.listening = FALSE, !.isProcessing = FALSE,
                                 !.interviewEnded = FALSE, !.hasSent = FALSE,
                                 !.transcript = FALSE, !.started = FALSE,
                                 !.silenceTimer = FALSE, !.noResponseTimer = FALSE,
                                 !.timer = FALSE, !.endSent = FALSE,
                                 !.restartTimers = @ + 1])

\* the rest of resetInterview(): the countdown starts again and, after
\* 300 ms, sendToAI("__start__")
RestartFire ==
    /\ client.restartTimers > 0
    /\ ClientStep(sendToAI([client EXCEPT !.restartTimers = @ - 1,
                                          !.remainingSeconds = MaxSeconds,
                                          !.timer = TRUE, !.started = TRUE],
                           "__start__"))

\* router.push to the results screen, 1.5 s after a completing reply
Navigate ==
    /\ client.navigateTimer
    /\ ClientStep([client EXCEPT !.navigateTimer = FALSE, !.utterance = FALSE,
                                 !.screen = "results"])

InitClient ==
    /\ clock = 1
    /\ IdleAdaptive
    /\ IdleEval
    /\ IdleAntiCheat
    /\ IdleModules
    /\ IdleFollowUp
    /\ IdleServer
    /\ client = MountedClient

\* what timers, speech engines and the server do
ClientProgress ==
    \/ CountdownTick
    \/ \E i \in 1..MaxPending, outcome \in ReplyOutcomes : Reply(i, outcome)
    \/ SpeechDone
    \/ NoResponseTimeout
    \/ SilenceTimeout
    \/ RecognitionEnd
    \/ RestartFire
    \/ Navigate

\* what the candidate does
ClientInput ==
    \/ StartListening
    \/ RecognitionResult
    \/ StopListening
    \/ StopSpeaking
    \/ Restart

NextClient == ClientProgress \/ ClientInput

SpecClient == InitClient /\ [][NextClient]_vars

\* timers fire, speech and recognition end, and the server answers
FairClient ==
    /\ SpecClient
    /\ WF_vars(CountdownTick)
    /\ WF_vars(\E i \in 1..MaxPending, outcome \in ReplyOutcomes : Reply(i, outcome))
    /\ WF_vars(SpeechDone)
    /\ WF_vars(NoResponseTimeout)
    /\ WF_vars(SilenceTimeout)
    /\ WF_vars(RecognitionEnd)
    /\ WF_vars(RestartFire)
    /\ WF_vars(Navigate)

\* the countdown has reached zero
Expired == client.remainingSeconds = 0 /\ client.interviewEnded

\* C39: once the countdown has reached zero, the client eventually sends
\* __end__, whatever it was doing at expiry, unless a completing reply takes
\* it to the results screen or the candidate restarts the interview before.
C39_EndSentAfterExpiry ==
    Expired ~> ( \/ client.endSent
                 \/ client.navigateTimer
                 \/ client.screen = "results"
                 \/ client.restartTimers > 0 )

\* C40: the client never has two fetches of /api/chat awaiting their reply
\* at the same time.
C40_OneRequestInFlight == Len(client.pending) <= 1

====
